---------------------------- MODULE Spec2Model ----------------------------
(***************************************************************************)
(* A model of the personal-finance assistant: the Ledger Store (db.py),    *)
(* the Financial Operations (functions.py), the Intent Dispatcher          *)
(* (gemini_agent.py) and the session gate of the Flask front end (app.py). *)
(*                                                                         *)
(* Python values are records [t, n, s]: t is the type tag, n the number of *)
(* an int or bool, s the text of a str as a sequence of one-character      *)
(* strings, so that formatting, parsing and SQLite's text comparison are   *)
(* computed character by character as the code computes them.              *)
(***************************************************************************)
EXTENDS Integers, Sequences, FiniteSets, TLC

(***************************************************************************)
(* Python values                                                           *)
(***************************************************************************)
None == [t |-> "none", n |-> 0, s |-> <<>>]

\* a keyword the caller did not pass (only inside an argument set)
Absent == [t |-> "absent", n |-> 0, s |-> <<>>]

IntV(i) == [t |-> "int", n |-> i, s |-> <<>>]

StrV(cs) == [t |-> "str", n |-> 0, s |-> cs]

\* Python truthiness: None, 0, False and "" are falsy
Truthy(v) ==
    CASE v.t = "none" -> FALSE
      [] v.t = "absent" -> FALSE
      [] v.t = "int" -> v.n # 0
      [] v.t = "bool" -> v.n # 0
      [] v.t = "str" -> v.s # <<>>
      [] OTHER -> TRUE

\* isinstance(v, (int, float)); bool is a subclass of int
IsNumber(v) == v.t \in {"int", "bool"}

\* isinstance(v, int)
IsInt(v) == v.t \in {"int", "bool"}

\* isinstance(v, str)
IsStr(v) == v.t = "str"

(***************************************************************************)
(* Text: character codes, comparison, decimal formatting                   *)
(***************************************************************************)
DigitChars == <<"0", "1", "2", "3", "4", "5", "6", "7", "8", "9">>

Digit == {DigitChars[i] : i \in 1..10}

IsDigit(c) == c \in Digit

DigitValue == [c \in Digit |-> (CHOOSE i \in 1..10 : DigitChars[i] = c) - 1]

DigitVal(c) == DigitValue[c]

LowerChars ==
    <<"a", "b", "c", "d", "e", "f", "g", "h", "i", "j", "k", "l", "m",
      "n", "o", "p", "q", "r", "s", "t", "u", "v", "w", "x", "y", "z">>

UpperChars ==
    <<"A", "B", "C", "D", "E", "F", "G", "H", "I", "J", "K", "L", "M",
      "N", "O", "P", "Q", "R", "S", "T", "U", "V", "W", "X", "Y", "Z">>

\* str.upper() of a text: each lower-case letter becomes its capital
Upper(cs) ==
    [i \in DOMAIN cs |->
        IF \E k \in DOMAIN LowerChars : LowerChars[k] = cs[i]
        THEN UpperChars[CHOOSE k \in DOMAIN LowerChars : LowerChars[k] = cs[i]]
        ELSE cs[i]]

\* the characters whose order matters to a comparison made by the store
Marks == {" ", "-", "/", ":", "T"}

\* the byte of a character (ASCII), the order SQLite's BINARY collation
\* uses; a letter other than "T" stands for any lower-case letter
Byte ==
    [c \in Digit \cup Marks |->
        CASE c = " " -> 32
          [] c = "-" -> 45
          [] c = "/" -> 47
          [] c = ":" -> 58
          [] c = "T" -> 84
          [] OTHER -> 48 + DigitValue[c]]

Ord(c) == IF c \in DOMAIN Byte THEN Byte[c] ELSE 97

RECURSIVE StrLess(_, _)
\* a < b as SQLite compares two TEXT values (memcmp, a proper prefix is less)
StrLess(a, b) ==
    IF b = <<>> THEN FALSE
    ELSE IF a = <<>> THEN TRUE
    ELSE IF Ord(Head(a)) # Ord(Head(b)) THEN Ord(Head(a)) < Ord(Head(b))
    ELSE StrLess(Tail(a), Tail(b))

StrLessEq(a, b) == a = b \/ StrLess(a, b)

RECURSIVE Digits(_)
\* str(n) for n >= 0
Digits(n) ==
    IF n < 10 THEN <<DigitChars[n + 1]>>
    ELSE Digits(n \div 10) \o <<DigitChars[(n % 10) + 1]>>

\* format(n, "02d") for n >= 0
Pad2(n) == IF n < 10 THEN <<"0">> \o Digits(n) ELSE Digits(n)

\* format(n, "04d") for n >= 0
Pad4(n) ==
    IF n < 10 THEN <<"0", "0", "0">> \o Digits(n)
    ELSE IF n < 100 THEN <<"0", "0">> \o Digits(n)
    ELSE IF n < 1000 THEN <<"0">> \o Digits(n)
    ELSE Digits(n)

RECURSIVE NumVal(_)
\* int(cs) for a non-empty sequence of digits
NumVal(cs) ==
    IF Len(cs) = 1 THEN DigitVal(cs[1])
    ELSE 10 * NumVal(SubSeq(cs, 1, Len(cs) - 1)) + DigitVal(cs[Len(cs)])

AllDigits(cs) == \A i \in 1..Len(cs) : IsDigit(cs[i])

(***************************************************************************)
(* Calendar                                                                *)
(***************************************************************************)
IsLeap(y) == (y % 4 = 0 /\ y % 100 # 0) \/ y % 400 = 0

DaysInMonth(y, m) ==
    IF m = 2 THEN (IF IsLeap(y) THEN 29 ELSE 28)
    ELSE IF m \in {4, 6, 9, 11} THEN 30
    ELSE 31

\* the position of the "-" that ends the month field of cs: 7 or 8, or 0
MonthEnd(cs) ==
    IF Len(cs) > 7 /\ cs[7] = "-" THEN 7
    ELSE IF Len(cs) > 8 /\ cs[8] = "-" THEN 8
    ELSE 0

\* the date datetime.datetime.strptime(cs, "%Y-%m-%d") returns, where it returns
DateOf(cs) ==
    <<NumVal(SubSeq(cs, 1, 4)), NumVal(SubSeq(cs, 6, MonthEnd(cs) - 1)),
      NumVal(SubSeq(cs, MonthEnd(cs) + 1, Len(cs)))>>

\* datetime.datetime.strptime(cs, "%Y-%m-%d") returns (TRUE) or raises
\* ValueError (FALSE): %Y is four digits, %m is 1[0-2]|0[1-9]|[1-9], %d is
\* 3[01]|[12]\d|0[1-9]|[1-9], nothing may remain, and the day must exist.
StrptimeOK(cs) ==
    /\ Len(cs) >= 8
    /\ AllDigits(SubSeq(cs, 1, 4))
    /\ cs[5] = "-"
    /\ MonthEnd(cs) # 0
    /\ LET ms == SubSeq(cs, 6, MonthEnd(cs) - 1)
           ds == SubSeq(cs, MonthEnd(cs) + 1, Len(cs))
       IN  /\ Len(ds) \in {1, 2}
           /\ AllDigits(ms)
           /\ AllDigits(ds)
           /\ DateOf(cs)[1] >= 1
           /\ DateOf(cs)[2] \in 1..12
           /\ DateOf(cs)[3] \in 1..DaysInMonth(DateOf(cs)[1], DateOf(cs)[2])

\* f"{year}-{month:02d}-01"
FirstOfMonth(year, month) == Digits(year) \o <<"-">> \o Pad2(month) \o <<"-", "0", "1">>

\* the calendar date k days after (y, m, d)
RECURSIVE AddDays(_, _, _, _)
AddDays(y, m, d, k) ==
    IF k = 0 THEN <<y, m, d>>
    ELSE IF d < DaysInMonth(y, m) THEN AddDays(y, m, d + 1, k - 1)
    ELSE IF m < 12 THEN AddDays(y, m + 1, 1, k - 1)
    ELSE AddDays(y + 1, 1, 1, k - 1)

(***************************************************************************)
(* State                                                                   *)
(***************************************************************************)
VARIABLES
    users,          \* rows of table users (db.py:65-77), in id order
    transactions,   \* rows of table transactions (db.py:80-93), in id order
    pool,           \* connections waiting in Database._connection_pool
    tokens,         \* session tokens drawn from secrets.token_hex so far
    now,            \* the clock: hours since 00:00 of the first day
    chat_history,   \* GeminiAgent.chat_history, oldest turn first
    appended,       \* number of turns ever appended to chat_history
    last            \* the last completed call: what it was given and returned

vars == <<users, transactions, pool, tokens, now, chat_history, appended, last>>

(***************************************************************************)
(* The clock: datetime.now() and SQLite's 'now'.  The process runs with    *)
(* local time equal to UTC, the case in which the two clocks agree.        *)
(***************************************************************************)
\* the date of the clock's hour h, as <<year, month, day>>: hour 0 is
\* 2024-06-29 00:00, and h may be as early as -24
DateOfHour(h) == AddDays(2024, 6, 28, (h + 24) \div 24)

DateStr(ymd) == Pad4(ymd[1]) \o <<"-">> \o Pad2(ymd[2]) \o <<"-">> \o Pad2(ymd[3])

ClockStr(h) == Pad2(h % 24) \o <<":", "0", "0", ":", "0", "0">>

\* datetime.now().isoformat(): "YYYY-MM-DDTHH:MM:SS" and, unless it is zero,
\* the microsecond, which no comparison below gets to
IsoFormat(h) == DateStr(DateOfHour(h)) \o <<"T">> \o ClockStr(h)

\* SQLite's datetime('now', '-24 hours'): "YYYY-MM-DD HH:MM:SS"
SqliteDayAgo(h) == DateStr(DateOfHour(h - 24)) \o <<" ">> \o ClockStr(h)

\* datetime.now().strftime("%Y-%m-%d")
Today(h) == DateStr(DateOfHour(h))

\* datetime.now().month, datetime.now().year
NowMonth(h) == DateOfHour(h)[2]

NowYear(h) == DateOfHour(h)[1]

(***************************************************************************)
(* Ledger Store: the connection pool                                       *)
(***************************************************************************)
\* Database._max_connections
MaxConnections == 5

\* what _get_connection raises once Queue.get has timed out: the handler
\* names Queue.Empty, which class queue.Queue does not have, so evaluating
\* the except clause raises AttributeError in place of the intended
\* Exception("Database connection timeout")
PoolTimeoutError == "type object 'Queue' has no attribute 'Empty'"

\* the message of the exception the except clause of _get_connection means
\* to raise
ConnectionTimeout == "Database connection timeout"

\* _get_connection: a connection is handed out iff one is waiting
GetConnectionOK(p) == p > 0

\* the pool after __new__: _initialize_pool puts MaxConnections connections,
\* then _create_tables takes one in a with-block, which commits and never
\* puts it back
PoolAfterNew == MaxConnections - 1

(***************************************************************************)
(* Ledger Store: transactions                                              *)
(***************************************************************************)
\* an insert that writes over the newest row when the ledger holds one
add_transaction_replacing(txs, p, user_id, amount, category, date, transaction_type) ==
    IF ~GetConnectionOK(p)
    THEN [raised |-> TRUE, error |-> PoolTimeoutError, transactions |-> txs,
          pool |-> p, id |-> 0]
    ELSE IF txs = <<>>
    THEN [raised |-> FALSE, error |-> "",
          transactions |-> <<[id |-> 1, user_id |-> user_id, amount |-> amount,
                              category |-> category, date |-> date,
                              transaction_type |-> transaction_type]>>,
          pool |-> p - 1, id |-> 1]
    ELSE [raised |-> FALSE, error |-> "",
          transactions |-> [txs EXCEPT ![Len(txs)] =
              [id |-> Len(txs), user_id |-> user_id, amount |-> amount,
               category |-> category, date |-> date,
               transaction_type |-> transaction_type]],
          pool |-> p - 1, id |-> Len(txs)]

\* add_transaction: [raised, error, transactions, pool, id].  The with-block
\* commits the insert; the connection it took is not put back.
add_transaction(txs, p, user_id, amount, category, date, transaction_type) ==
    IF ~GetConnectionOK(p)
    THEN [raised |-> TRUE, error |-> PoolTimeoutError, transactions |-> txs,
          pool |-> p, id |-> 0]
    ELSE [raised |-> FALSE, error |-> "",
          transactions |-> Append(txs,
              [id |-> Len(txs) + 1, user_id |-> user_id, amount |-> amount,
               category |-> category, date |-> date,
               transaction_type |-> transaction_type]),
          pool |-> p - 1, id |-> Len(txs) + 1]

\* a WHERE clause without the test of user_id
InRangeAnyUser(row, user_id, start_date, end_date) ==
    /\ StrLessEq(start_date, row.date.s)
    /\ StrLessEq(row.date.s, end_date)

\* the WHERE clause of get_transactions, both bounds given
InRange(row, user_id, start_date, end_date) ==
    /\ row.user_id = user_id
    /\ StrLessEq(start_date, row.date.s)
    /\ StrLessEq(row.date.s, end_date)

\* get_transactions: [raised, error, rows].  The connection is put back in
\* the finally clause, so the pool is as before.  ORDER BY date DESC only
\* orders the rows; they are kept here in id order.
get_transactions(txs, p, user_id, start_date, end_date) ==
    IF ~GetConnectionOK(p)
    THEN [raised |-> TRUE, error |-> PoolTimeoutError, rows |-> <<>>]
    ELSE [raised |-> FALSE, error |-> "",
          rows |-> SelectSeq(txs, LAMBDA r : InRange(r, user_id, start_date, end_date))]

(***************************************************************************)
(* Ledger Store: users and sessions                                        *)
(***************************************************************************)
\* what create_user and authenticate_user return in place of a token: None
NoToken == 0

\* hashlib.sha256(password.encode()).hexdigest(): the digest stands for the
\* password it was computed from, no two passwords sharing one
Sha256(password) == <<"sha256", password>>

\* secrets.token_hex(32): the tokens drawn are numbered 1, 2, ... in the
\* order of drawing, so no two draws give the same token
TokenHex(tok) == tok + 1

\* a registration that holds only the username unique
create_user_unique_username(us, p, tok, h, username, email, password) ==
    IF \E i \in DOMAIN us : us[i].username = username
    THEN [raised |-> FALSE, error |-> "", users |-> us,
          tokens |-> TokenHex(tok), token |-> NoToken]
    ELSE [raised |-> FALSE, error |-> "",
          users |-> Append(us,
              [id |-> Len(us) + 1, username |-> username, email |-> email,
               password_hash |-> Sha256(password),
               session_token |-> TokenHex(tok), last_login |-> None]),
          tokens |-> TokenHex(tok), token |-> TokenHex(tok)]

\* create_user: [raised, error, users, tokens, token].  The token is drawn
\* before the INSERT; a taken username or email (both UNIQUE) makes the
\* INSERT raise IntegrityError, which returns None.  The row gets no
\* last_login: the column stays NULL.  created_at, which nothing reads, is
\* left out of the row.
create_user(us, p, tok, h, username, email, password) ==
    IF ~GetConnectionOK(p)
    THEN [raised |-> TRUE, error |-> PoolTimeoutError, users |-> us,
          tokens |-> tok, token |-> NoToken]
    ELSE IF \E i \in DOMAIN us : us[i].username = username \/ us[i].email = email
         THEN [raised |-> FALSE, error |-> "", users |-> us,
               tokens |-> TokenHex(tok), token |-> NoToken]
         ELSE [raised |-> FALSE, error |-> "",
               users |-> Append(us,
                   [id |-> Len(us) + 1, username |-> username, email |-> email,
                    password_hash |-> Sha256(password),
                    session_token |-> TokenHex(tok), last_login |-> None]),
               tokens |-> TokenHex(tok), token |-> TokenHex(tok)]

\* an authentication that refreshes last_login and hands the stored token out again
authenticate_user_keeping_token(us, p, tok, h, username, password) ==
    LET found == {i \in DOMAIN us :
                     us[i].username = username /\ us[i].password_hash = Sha256(password)}
    IN  IF found = {}
        THEN [raised |-> FALSE, error |-> "", users |-> us, tokens |-> tok, token |-> NoToken]
        ELSE LET i == CHOOSE j \in found : TRUE
             IN  [raised |-> FALSE, error |-> "",
                  users |-> [us EXCEPT ![i].last_login = StrV(IsoFormat(h))],
                  tokens |-> tok, token |-> us[i].session_token]

\* an authentication that signs the user out when the password is wrong
authenticate_user_clearing_token(us, p, tok, h, username, password) ==
    LET found == {i \in DOMAIN us : us[i].username = username}
        fail == [raised |-> FALSE, error |-> "", users |-> us, tokens |-> tok,
                 token |-> NoToken]
    IN  IF found = {} THEN fail
        ELSE LET i == CHOOSE j \in found : TRUE
             IN  IF Sha256(password) # us[i].password_hash
                 THEN [fail EXCEPT !.users = [us EXCEPT ![i].session_token = NoToken]]
                 ELSE [raised |-> FALSE, error |-> "",
                       users |-> [us EXCEPT ![i].session_token = TokenHex(tok),
                                            ![i].last_login = StrV(IsoFormat(h))],
                       tokens |-> TokenHex(tok), token |-> TokenHex(tok)]

\* authenticate_user: [raised, error, users, tokens, token].  A user found by
\* name with the right password hash gets a new token and
\* last_login = datetime.now().isoformat().
authenticate_user(us, p, tok, h, username, password) ==
    LET found == {i \in DOMAIN us : us[i].username = username}
        fail == [raised |-> FALSE, error |-> "", users |-> us, tokens |-> tok,
                 token |-> NoToken]
    IN  IF ~GetConnectionOK(p)
        THEN [raised |-> TRUE, error |-> PoolTimeoutError, users |-> us,
              tokens |-> tok, token |-> NoToken]
        ELSE IF found = {} THEN fail
        ELSE LET i == CHOOSE j \in found : TRUE
             IN  IF Sha256(password) # us[i].password_hash THEN fail
                 ELSE [raised |-> FALSE, error |-> "",
                       users |-> [us EXCEPT ![i].session_token = TokenHex(tok),
                                            ![i].last_login = StrV(IsoFormat(h))],
                       tokens |-> TokenHex(tok), token |-> TokenHex(tok)]

\* a rotation in two statements, each committed: the token, then last_login
RotationWritesInTwoCommits(us, i, session_token, h) ==
    <<[us EXCEPT ![i].session_token = session_token],
      [us EXCEPT ![i].session_token = session_token,
                 ![i].last_login = StrV(IsoFormat(h))]>>

\* the states of table users that authenticate_user makes visible to the
\* other connections, in order: its one UPDATE sets session_token and
\* last_login of row i and one commit follows
RotationWrites(us, i, session_token, h) ==
    <<[us EXCEPT ![i].session_token = session_token,
                 ![i].last_login = StrV(IsoFormat(h))]>>

\* the WHERE clause of get_user_by_token: last_login and the value of
\* datetime('now', '-24 hours') are both TEXT and are compared as text; a
\* NULL last_login compares as NULL, which is not true
TokenMatches(row, h, session_token) ==
    /\ row.session_token = session_token
    /\ row.last_login # None
    /\ StrLess(SqliteDayAgo(h), row.last_login.s)

NoUser == [success |-> FALSE, error |-> "", user_id |-> 0, username |-> "", email |-> ""]

\* a resolution that renews the window: it sets last_login to the time of
\* the call
get_user_by_token_renewing(us, p, h, session_token) ==
    LET found == {i \in DOMAIN us : TokenMatches(us[i], h, session_token)}
    IN  IF found = {}
        THEN [raised |-> FALSE, error |-> "",
              user |-> [NoUser EXCEPT !.error = "Invalid or expired session token"],
              users |-> us]
        ELSE LET i == CHOOSE j \in found : TRUE
             IN  [raised |-> FALSE, error |-> "",
                  user |-> [success |-> TRUE, error |-> "", user_id |-> us[i].id,
                            username |-> us[i].username, email |-> us[i].email],
                  users |-> [us EXCEPT ![i].last_login = StrV(IsoFormat(h))]]

\* get_user_by_token: [raised, error, user, users].  Its one statement is a
\* SELECT, so the table is as before.
get_user_by_token(us, p, h, session_token) ==
    LET found == {i \in DOMAIN us : TokenMatches(us[i], h, session_token)}
    IN  IF ~GetConnectionOK(p)
        THEN [raised |-> TRUE, error |-> PoolTimeoutError, user |-> NoUser, users |-> us]
        ELSE IF found = {}
        THEN [raised |-> FALSE, error |-> "",
              user |-> [NoUser EXCEPT !.error = "Invalid or expired session token"],
              users |-> us]
        ELSE LET i == CHOOSE j \in found : TRUE
             IN  [raised |-> FALSE, error |-> "",
                  user |-> [success |-> TRUE, error |-> "", user_id |-> us[i].id,
                            username |-> us[i].username, email |-> us[i].email],
                  users |-> us]

(***************************************************************************)
(* Financial Operations: the result envelope                               *)
(***************************************************************************)
NoMessage == [kind |-> "", amount |-> None, category |-> None, date |-> None]

NoSummary == [income |-> 0, expenses |-> 0, balance |-> 0, transactions |-> 0]

NoRate == [from |-> None, to |-> None, rate |-> None, date |-> None]

\* {"success": False, "error": err}
Failure(err) ==
    [success |-> FALSE, error |-> err, message |-> NoMessage,
     summary |-> NoSummary, rate |-> NoRate]

\* f"{amount:.2f}" of an int: its decimal digits and two zero decimals
Fixed2(amount) == StrV(Digits(amount.n) \o <<".", "0", "0">>)

\* {"success": True, "message": f"{kind} of ${amount:.2f} ... on {date} has been logged."}
Logged(kind, amount, category, date) ==
    [success |-> TRUE, error |-> "",
     message |-> [kind |-> kind, amount |-> Fixed2(amount), category |-> category,
                  date |-> date],
     summary |-> NoSummary, rate |-> NoRate]

\* {"success": True, "summary": {...}}
Summary(income, expenses, balance, count) ==
    [success |-> TRUE, error |-> "", message |-> NoMessage,
     summary |-> [income |-> income, expenses |-> expenses, balance |-> balance,
                  transactions |-> count],
     rate |-> NoRate]

\* {"success": True, "rate": {...}}
Rate(from, to, rate, date) ==
    [success |-> TRUE, error |-> "", message |-> NoMessage, summary |-> NoSummary,
     rate |-> [from |-> from, to |-> to, rate |-> rate, date |-> date]]

\* the amount test with "<" written for "<=": zero passes
AmountRejectedZeroPasses(amount) == ~IsNumber(amount) \/ amount.n < 0

\* the amount test of log_expense and log_income fails:
\* not isinstance(amount, (int, float)) or amount <= 0
AmountRejected(amount) == ~IsNumber(amount) \/ amount.n <= 0

\* the month test of get_monthly_summary fails
MonthRejected(month) == ~IsInt(month) \/ ~(1 <= month.n /\ month.n <= 12)

\* the year test of get_monthly_summary fails
YearRejected(year) == ~IsInt(year) \/ year.n < 1900 \/ year.n > 2100

\* an operation whose try block lets exceptions out
Reraise(r) == r

\* except Exception as e: return {"success": False, "error": str(e)}
Except(r) ==
    IF r.raised THEN [r EXCEPT !.raised = FALSE, !.error = "", !.env = Failure(r.error)]
    ELSE r

\* the try block that log_expense and log_income share but for the label's
\* name, the kind and the message: [raised, error, env, transactions, pool]
LogTransaction(txs, p, h, amount, label, date0, user_id, kind, labelError, transaction_type) ==
    LET date == IF Truthy(date0) THEN date0 ELSE StrV(Today(h))
        same(env) == [raised |-> FALSE, error |-> "", env |-> env,
                      transactions |-> txs, pool |-> p]
        raise(err) == [raised |-> TRUE, error |-> err, env |-> Failure(""),
                       transactions |-> txs, pool |-> p]
    IN  IF ~Truthy(user_id) THEN same(Failure("User ID is required for transactions"))
        ELSE IF AmountRejected(amount) THEN same(Failure("Amount must be a positive number"))
        ELSE IF ~Truthy(label) \/ ~IsStr(label) THEN same(Failure(labelError))
        ELSE IF ~IsStr(date) THEN raise("strptime() argument 1 must be str")
        ELSE IF ~StrptimeOK(date.s) THEN same(Failure("Date must be in YYYY-MM-DD format"))
        ELSE LET a == add_transaction(txs, p, user_id, amount, label, date, transaction_type)
             IN  IF a.raised THEN raise(a.error)
                 ELSE [raised |-> FALSE, error |-> "",
                       env |-> Logged(kind, amount, label, date),
                       transactions |-> a.transactions, pool |-> a.pool]

log_expense(txs, p, h, amount, category, date, user_id) ==
    Except(LogTransaction(txs, p, h, amount, category, date, user_id, "Expense",
                          "Category must be a non-empty string", "expense"))

\* income written with the kind of an expense
log_income_as_expense(txs, p, h, amount, source, date, user_id) ==
    Except(LogTransaction(txs, p, h, amount, source, date, user_id, "Income",
                          "Source must be a non-empty string", "expense"))

log_income(txs, p, h, amount, source, date, user_id) ==
    Except(LogTransaction(txs, p, h, amount, source, date, user_id, "Income",
                          "Source must be a non-empty string", "income"))

RECURSIVE SumAmounts(_, _)
\* sum(t["amount"] for t in rows if t["transaction_type"] == transaction_type)
SumAmounts(rows, transaction_type) ==
    IF rows = <<>> THEN 0
    ELSE (IF Head(rows).transaction_type = transaction_type THEN Head(rows).amount.n ELSE 0)
         + SumAmounts(Tail(rows), transaction_type)

\* the balance with its operands exchanged
BalanceSwapped(total_income, total_expenses) == total_expenses - total_income

\* balance = total_income - total_expenses
Balance(total_income, total_expenses) == total_income - total_expenses

\* the upper date handed to get_transactions
EndDate(year, month) ==
    IF month = 12 THEN FirstOfMonth(year + 1, 1) ELSE FirstOfMonth(year, month + 1)

\* month = month or now.month (and the same for the year), done when either is falsy
OrDefault(v, default) == IF Truthy(v) THEN v ELSE IntV(default)

\* no call of get_transactions
NoQuery == [user_id |-> None, start_date |-> <<>>, end_date |-> <<>>]

\* the try block of get_monthly_summary: [raised, error, env, queried,
\* query], query being the arguments it handed to get_transactions; the
\* store and the pool are as before
SummaryBody(txs, p, h, month0, year0, user_id) ==
    LET fill == ~Truthy(month0) \/ ~Truthy(year0)
        month == IF fill THEN OrDefault(month0, NowMonth(h)) ELSE month0
        year == IF fill THEN OrDefault(year0, NowYear(h)) ELSE year0
        no(err) == [raised |-> FALSE, error |-> "", env |-> Failure(err),
                    queried |-> FALSE, query |-> NoQuery]
    IN  IF ~Truthy(user_id) THEN no("User ID is required for transactions")
        ELSE IF MonthRejected(month) THEN no("Month must be a number between 1 and 12")
        ELSE IF YearRejected(year) THEN no("Year must be a valid year")
        ELSE LET q == get_transactions(txs, p, user_id, FirstOfMonth(year.n, month.n),
                                       EndDate(year.n, month.n))
                 total_income == SumAmounts(q.rows, "income")
                 total_expenses == SumAmounts(q.rows, "expense")
                 asked == [user_id |-> user_id,
                           start_date |-> FirstOfMonth(year.n, month.n),
                           end_date |-> EndDate(year.n, month.n)]
             IN  IF q.raised
                 THEN [raised |-> TRUE, error |-> q.error, env |-> Failure(""),
                       queried |-> TRUE, query |-> asked]
                 ELSE [raised |-> FALSE, error |-> "",
                       env |-> Summary(total_income, total_expenses,
                                       Balance(total_income, total_expenses), Len(q.rows)),
                       queried |-> TRUE, query |-> asked]

get_monthly_summary(txs, p, h, month0, year0, user_id) ==
    Except(SummaryBody(txs, p, h, month0, year0, user_id))

(***************************************************************************)
(* Rate Lookup (api.py) and get_exchange_rate                              *)
(***************************************************************************)
\* what the provider does with one request: it answers with a rate, cannot
\* be reached, answers with an HTTP error status, or answers with a payload
\* that lacks "result", the rate of to_currency in "result", or "updated"
ProviderOutcomes == {"ok", "unreachable", "http_error", "no_result", "no_rate", "no_updated"}

\* no lookup made
NoLookup ==
    [raised |-> FALSE, error |-> "", success |-> FALSE, rate |-> None, date |-> None]

\* ExchangeRateAPI.get_exchange_rate: [raised, error, success, rate, date].
\* Only requests.RequestException is caught; the KeyError of a missing
\* payload field is not one.
api_get_exchange_rate(prov, h, from_currency, to_currency) ==
    CASE prov = "unreachable" -> [NoLookup EXCEPT !.error = "ConnectionError"]
      [] prov = "http_error" -> [NoLookup EXCEPT !.error = "HTTPError"]
      [] prov = "no_result" -> [NoLookup EXCEPT !.raised = TRUE, !.error = "'result'"]
      [] prov = "no_rate" -> [NoLookup EXCEPT !.error = "Exchange rate not found"]
      [] prov = "no_updated" -> [NoLookup EXCEPT !.raised = TRUE, !.error = "'updated'"]
      [] OTHER ->
            [raised |-> FALSE, error |-> "", success |-> TRUE,
             rate |-> IntV(57), date |-> StrV(Today(h))]

\* no request made
NoParams == [from |-> None, to |-> None]

\* params = {"from": from_currency, "to": to_currency, ...}: the query that
\* requests.get sends to the provider
RequestParams(from_currency, to_currency) ==
    [from |-> from_currency, to |-> to_currency]

\* the try block of FinancialFunctions.get_exchange_rate: [raised, error,
\* env, called, sent], sent being the query the provider received.  The dictionary the lookup returns is never empty, so
\* "if not rate" never fires; a failure dictionary has no "rate" key and
\* reading it raises KeyError.
RateBody(prov, h, from_currency, to_currency, user_id) ==
    LET no(err) == [raised |-> FALSE, error |-> "", env |-> Failure(err), called |-> FALSE,
                    sent |-> NoParams]
        raise(err) == [raised |-> TRUE, error |-> err, env |-> Failure(""), called |-> TRUE,
                       sent |-> RequestParams(from_currency, to_currency)]
    IN  IF ~Truthy(user_id) THEN no("User ID is required for transactions")
        ELSE IF ~Truthy(from_currency) \/ ~Truthy(to_currency)
        THEN no("Both currency codes are required")
        ELSE LET r == api_get_exchange_rate(prov, h, from_currency, to_currency)
             IN  IF r.raised THEN raise(r.error)
                 ELSE IF ~r.success THEN raise("'rate'")
                 ELSE [raised |-> FALSE, error |-> "",
                       env |-> Rate(from_currency, to_currency, r.rate, r.date),
                       called |-> TRUE,
                       sent |-> RequestParams(from_currency, to_currency)]

get_exchange_rate(prov, h, from_currency, to_currency, user_id) ==
    Except(RateBody(prov, h, from_currency, to_currency, user_id))

(***************************************************************************)
(* Calling an operation with a keyword argument set                        *)
(***************************************************************************)
Keys ==
    {"amount", "category", "source", "date", "month", "year", "user_id",
     "from_currency", "to_currency"}

\* the empty argument set
NoArgs == [k \in Keys |-> Absent]

Given(args) == {k \in Keys : args[k] # Absent}

\* Python binds the keywords: one the function does not take, or a missing
\* one without a default, raises TypeError
BindOK(args, params, required) == Given(args) \subseteq params /\ required \subseteq Given(args)

\* a binding that gives a parameter left out the value 1, the first user's id
ArgOrFirstUser(args, k) == IF args[k] = Absent THEN IntV(1) ELSE args[k]

\* the value a parameter with default None is bound to
Arg(args, k) == IF args[k] = Absent THEN None ELSE args[k]

OperationNames == {"log_expense", "log_income", "get_monthly_summary", "get_exchange_rate"}

Params(name) ==
    CASE name = "log_expense" -> {"amount", "category", "date", "user_id"}
      [] name = "log_income" -> {"amount", "source", "date", "user_id"}
      [] name = "get_monthly_summary" -> {"month", "year", "user_id"}
      [] name = "get_exchange_rate" -> {"from_currency", "to_currency", "user_id"}

Required(name) ==
    CASE name = "log_expense" -> {"amount", "category"}
      [] name = "log_income" -> {"amount", "source"}
      [] name = "get_monthly_summary" -> {}
      [] name = "get_exchange_rate" -> {"from_currency", "to_currency"}

\* self.functions.<name> called with the keywords of args:
\* [raised, error, env, transactions, pool, queried, query, called]
CallOperation(name, txs, p, h, prov, args) ==
    LET out(r, t, q, qd, cd) ==
            [raised |-> r.raised, error |-> r.error, env |-> r.env, transactions |-> t,
             pool |-> q, queried |-> qd # NoQuery, query |-> qd, called |-> cd,
             sent |-> IF cd THEN r.sent ELSE NoParams]
    IN  IF ~BindOK(args, Params(name), Required(name))
        THEN [raised |-> TRUE, error |-> "TypeError", env |-> Failure("TypeError"),
              transactions |-> txs, pool |-> p, queried |-> FALSE, query |-> NoQuery,
              called |-> FALSE, sent |-> NoParams]
        ELSE CASE name = "log_expense" ->
                    LET r == log_expense(txs, p, h, args["amount"], args["category"],
                                         Arg(args, "date"), Arg(args, "user_id"))
                    IN  out(r, r.transactions, r.pool, NoQuery, FALSE)
               [] name = "log_income" ->
                    LET r == log_income(txs, p, h, args["amount"], args["source"],
                                        Arg(args, "date"), Arg(args, "user_id"))
                    IN  out(r, r.transactions, r.pool, NoQuery, FALSE)
               [] name = "get_monthly_summary" ->
                    LET r == get_monthly_summary(txs, p, h, Arg(args, "month"),
                                                 Arg(args, "year"), Arg(args, "user_id"))
                    IN  out(r, txs, p, r.query, FALSE)
               [] name = "get_exchange_rate" ->
                    LET r == get_exchange_rate(prov, h, args["from_currency"],
                                               args["to_currency"], Arg(args, "user_id"))
                    IN  out(r, txs, p, NoQuery, r.called)

(***************************************************************************)
(* Intent Dispatcher: GeminiAgent.process_message                          *)
(***************************************************************************)
\* the maxlen of GeminiAgent.chat_history
HistoryMaxlen == 5

\* a reply or a turn's content: the kind of text, the free text it carries
\* and the envelope whose fields are formatted into it
Reply(kind, text, env) == [kind |-> kind, text |-> text, env |-> env]

LoginReply == Reply("Please log in to use this feature.", "", Failure(""))

EmptyReply ==
    Reply("I received an empty response from the model. Please try again.", "", Failure(""))

NoContentReply ==
    Reply("I couldn't process the model's response. Please try again.", "", Failure(""))

NoPartsReply ==
    Reply("The response format was unexpected. Please try again.", "", Failure(""))

UnknownReply == Reply("I'm sorry, I don't know how to handle that function.", "", Failure(""))

ApologyReply ==
    Reply("I apologize, but I encountered an error processing your message. Please try again.",
          "", Failure(""))

\* f"I encountered an error: {result.get('error', 'Unknown error')}"
ErrorReply(env) == Reply("I encountered an error: ", "", env)

\* the reply formatted from a successful envelope
Rendered(function_name, env) ==
    CASE function_name \in {"log_expense", "log_income"} ->
            Reply("Successfully logged the transaction. ", "", env)
      [] function_name = "get_monthly_summary" ->
            Reply("Here's your monthly summary:", "", env)
      [] function_name = "get_exchange_rate" ->
            Reply("The exchange rate from", "", env)

\* response_text = part.text
TextReply(text) == Reply("", text, Failure(""))

\* deque.append on a deque(maxlen=5): a full deque drops its leftmost item
DequeAppendUnbounded(q, x) == Append(q, x)

DequeAppend(q, x) ==
    IF Len(q) = HistoryMaxlen THEN Append(Tail(q), x) ELSE Append(q, x)

\* an item of chat_history: {"role": ..., "content": ...}; n numbers the
\* appends, to tell which appends the deque still holds
Turn(role, content, n) == [role |-> role, content |-> content, n |-> n]

\* function_call.args made a dict: a mapping is taken as it is, anything that
\* is neither a mapping nor JSON text becomes {}
ArgsOf(part) == IF part.payload = "dict" THEN part.args ELSE NoArgs

\* a variant that keeps a user_id the model supplied
InjectUserIfAbsent(args, user_id) ==
    IF args["user_id"] = Absent THEN [args EXCEPT !["user_id"] = user_id] ELSE args

\* args["user_id"] = user_id
InjectUser(args, user_id) == [args EXCEPT !["user_id"] = user_id]

\* a fill that leaves a falsy value the model supplied in place
FillIfAbsent(args, k, v) ==
    IF args[k] = Absent THEN [args EXCEPT ![k] = IntV(v)] ELSE args

\* if k not in args or not args[k]: args[k] = v
FillDefault(args, k, v) ==
    IF args[k] = Absent \/ ~Truthy(args[k]) THEN [args EXCEPT ![k] = IntV(v)] ELSE args

\* the year and month of a get_monthly_summary call filled from the clock
FillYearMonth(function_name, args, h) ==
    IF function_name = "get_monthly_summary"
    THEN FillDefault(FillDefault(args, "year", NowYear(h)), "month", NowMonth(h))
    ELSE args

\* _format_chat_history: every item of the deque, oldest first, as
\* {"role": ..., "parts": [{"text": content}]}
format_chat_history(hist) ==
    [i \in DOMAIN hist |->
        [role |-> hist[i].role, text |-> hist[i].content, n |-> hist[i].n]]

\* the contents handed to generate_content: the formatted deque, which holds
\* the user turn just appended, then f"[User ID: {user_id}] {message}";
\* n is 0 for the context message, which is no item of the deque
Contents(hist, app, message, user_id) ==
    Append(format_chat_history(DequeAppend(hist, Turn("user", TextReply(message), app + 1))),
           [role |-> "user", text |-> TextReply(message), n |-> 0])

\* the state of the loop over content.parts: [transactions, pool,
\* response_text, calls, returned, raised, reply]; returned once a return
\* statement inside the loop has run, raised once an exception has left it
LoopStart(txs, p) ==
    [transactions |-> txs, pool |-> p, response_text |-> TextReply(""),
     calls |-> <<>>, returned |-> FALSE, raised |-> FALSE, reply |-> TextReply("")]

\* the loop state once operation function_name, called with args, has come
\* back with r
AfterCall(st, function_name, args, r) ==
    IF r.raised THEN [st EXCEPT !.raised = TRUE]
    ELSE [st EXCEPT
             !.transactions = r.transactions,
             !.pool = r.pool,
             !.calls = Append(@, [name |-> function_name, args |-> args]),
             !.response_text = IF r.env.success THEN Rendered(function_name, r.env) ELSE @,
             !.returned = ~r.env.success,
             !.reply = IF r.env.success THEN @ ELSE ErrorReply(r.env)]

\* one function_call part: the args made a dict, user_id put in, year and
\* month filled, the operation of that name called
RunCall(st, part, args, h, prov) ==
    IF part.name \notin OperationNames
    THEN [st EXCEPT !.returned = TRUE, !.reply = UnknownReply]
    ELSE AfterCall(st, part.name, args,
                   CallOperation(part.name, st.transactions, st.pool, h, prov, args))

\* one part of content.parts
RunPart(st, part, h, prov, user_id) ==
    IF part.kind = "text"
    THEN [st EXCEPT !.response_text = TextReply(part.text)]
    ELSE RunCall(st, part, FillYearMonth(part.name, InjectUser(ArgsOf(part), user_id), h),
                 h, prov)

\* the loop over content.parts from the part at the head of parts on
RECURSIVE RunParts(_, _, _, _, _)
RunParts(parts, st, h, prov, user_id) ==
    IF parts = <<>> \/ st.returned \/ st.raised THEN st
    ELSE RunParts(Tail(parts), RunPart(st, Head(parts), h, prov, user_id), h, prov, user_id)

\* what process_message has done: [reply, chat_history, appended,
\* transactions, pool, calls, asked]; asked tells whether the model was called
Done(reply, hist, app, txs, p, calls, asked) ==
    [reply |-> reply, chat_history |-> hist, appended |-> app, transactions |-> txs,
     pool |-> p, calls |-> calls, asked |-> asked]

\* an except clause that takes the turn's user message back out of the history
AfterLoopRolledBack(st, hist, app) ==
    IF st.raised
    THEN Done(ApologyReply, SubSeq(hist, 1, Len(hist) - 1), app - 1,
              st.transactions, st.pool, st.calls, TRUE)
    ELSE Done(st.response_text,
              DequeAppend(hist, Turn("assistant", st.response_text, app + 1)),
              app + 1, st.transactions, st.pool, st.calls, TRUE)

\* the end of process_message once the loop has ended in st: a return inside
\* the loop and the except clause both skip the append of the assistant turn
AfterLoop(st, hist, app) ==
    IF st.raised
    THEN Done(ApologyReply, hist, app, st.transactions, st.pool, st.calls, TRUE)
    ELSE IF st.returned
    THEN Done(st.reply, hist, app, st.transactions, st.pool, st.calls, TRUE)
    ELSE Done(st.response_text,
              DequeAppend(hist, Turn("assistant", st.response_text, app + 1)),
              app + 1, st.transactions, st.pool, st.calls, TRUE)

\* process_message from the call of the model on; hist holds the user turn.
\* resp is what client.models.generate_content does: it raises, or answers
\* without candidates, without content, without parts, or with parts.
AfterUserTurn(hist, app, txs, p, h, user_id, resp, prov) ==
    CASE resp.kind = "raise" -> Done(ApologyReply, hist, app, txs, p, <<>>, TRUE)
      [] resp.kind = "no_candidates" -> Done(EmptyReply, hist, app, txs, p, <<>>, TRUE)
      [] resp.kind = "no_content" -> Done(NoContentReply, hist, app, txs, p, <<>>, TRUE)
      [] resp.kind = "parts" /\ resp.parts = <<>> ->
            Done(NoPartsReply, hist, app, txs, p, <<>>, TRUE)
      [] OTHER ->
            AfterLoop(RunParts(resp.parts, LoopStart(txs, p), h, prov, user_id), hist, app)

\* a dispatcher that puts the message in the history before it looks at the
\* identity
process_message_recording_first(hist, app, txs, p, h, message, user_id, resp, prov) ==
    IF ~Truthy(user_id)
    THEN Done(LoginReply, DequeAppend(hist, Turn("user", TextReply(message), app + 1)),
              app + 1, txs, p, <<>>, FALSE)
    ELSE AfterUserTurn(DequeAppend(hist, Turn("user", TextReply(message), app + 1)),
                       app + 1, txs, p, h, user_id, resp, prov)

\* process_message: without an identity it answers at once; otherwise the
\* message joins the history and the model is called
process_message(hist, app, txs, p, h, message, user_id, resp, prov) ==
    IF ~Truthy(user_id) THEN Done(LoginReply, hist, app, txs, p, <<>>, FALSE)
    ELSE AfterUserTurn(DequeAppend(hist, Turn("user", TextReply(message), app + 1)),
                       app + 1, txs, p, h, user_id, resp, prov)

\* a call of the model that is made again when the answer has no candidates
RespondedAskingAgain(resp, requests) ==
    IF resp.kind = "no_candidates" /\ requests = 1
    THEN [phase |-> "AwaitingModel", requests |-> requests + 1]
    ELSE [phase |-> IF resp.kind = "raise" THEN "Idle" ELSE "Rendering",
          requests |-> requests]

\* where a call of process_message stands once generate_content is over,
\* and the requests it has made: an exception takes it to the except clause
\* and out, an answer of any kind to the code that turns it into the reply;
\* generate_content is called in one place and in no loop
Responded(resp, requests) ==
    [phase |-> IF resp.kind = "raise" THEN "Idle" ELSE "Rendering",
     requests |-> requests]

(***************************************************************************)
(* The front end (app.py): POST /api/chat behind login_required            *)
(***************************************************************************)
\* a request body without a "message" key
NoData == [has |-> FALSE, message |-> ""]

\* a request body {"message": message}
Data(message) == [has |-> TRUE, message |-> message]

\* a request answered with status and without a call of the dispatcher:
\* [status, invoked, user_id, done]
Refused(status, hist, app, txs, p) ==
    [status |-> status, invoked |-> FALSE, user_id |-> None,
     done |-> Done(TextReply(""), hist, app, txs, p, <<>>, FALSE)]

\* chat, the view function, for a token that get_user_by_token resolved to
\* user: the message is handed to the dispatcher with the user's id
ChatBody(user, hist, app, txs, p, h, data, resp, prov) ==
    IF ~data.has THEN Refused(400, hist, app, txs, p)
    ELSE IF ~user.success THEN Refused(401, hist, app, txs, p)
    ELSE [status |-> 200, invoked |-> TRUE, user_id |-> IntV(user.user_id),
          done |-> process_message(hist, app, txs, p, h, data.message,
                                   IntV(user.user_id), resp, prov)]

\* login_required once get_user_by_token has come back with r: an exception
\* leaves the decorator and the framework answers 500
Gate(r, hist, app, txs, p, h, data, resp, prov) ==
    IF r.raised THEN Refused(500, hist, app, txs, p)
    ELSE IF ~r.user.success THEN Refused(401, hist, app, txs, p)
    ELSE ChatBody(r.user, hist, app, txs, p, h, data, resp, prov)

\* POST /api/chat with header X-Session-Token: session_token, NoToken
\* standing for a request without the header
chat(us, hist, app, txs, p, h, session_token, data, resp, prov) ==
    IF session_token = NoToken THEN Refused(401, hist, app, txs, p)
    ELSE Gate(get_user_by_token(us, p, h, session_token), hist, app, txs, p, h,
              data, resp, prov)

(***************************************************************************)
(* The observation of the last completed call                              *)
(***************************************************************************)
\* a response with no parts
NoResponse == [kind |-> "parts", parts |-> <<>>]

\* session_token and last_login of a row, as a reader finds them
Pair(row) == [session_token |-> row.session_token, last_login |-> row.last_login]

\* no row read
NoPair == [session_token |-> NoToken, last_login |-> None]

\* the threads that construct Database() at the same time
MaxThreads == 3

Threads == 1..MaxThreads

\* the class attributes of Database and each constructing thread's position:
\* lock is the holder of _lock (0: free), instance the object in _instance
\* (0: None), created the objects made by super().__new__, tables the runs of
\* _create_tables, put the connections _initialize_pool made, got what each
\* thread's __new__ returned
NotConstructed ==
    [lock |-> 0, instance |-> 0, created |-> 0, tables |-> 0, put |-> 0,
     pc |-> [t \in Threads |-> "new"], got |-> [t \in Threads |-> 0]]

\* the class once a first Database() has returned and no other is under way
Constructed ==
    [lock |-> 0, instance |-> 1, created |-> 1, tables |-> 1, put |-> MaxConnections,
     pc |-> [t \in Threads |-> "done"], got |-> [t \in Threads |-> 1]]

NoCall ==
    [op |-> "none", args |-> NoArgs, prov |-> "ok", raised |-> FALSE,
     env |-> Failure(""), before |-> <<>>, poolBefore |-> 0,
     queried |-> FALSE, query |-> NoQuery, called |-> FALSE,
     username |-> "", email |-> "", password |-> "", token |-> NoToken,
     user |-> NoUser,
     usersBefore |-> <<>>, lookup |-> NoLookup, status |-> 0, invoked |-> FALSE,
     user_id |-> None, message |-> "", response |-> NoResponse, reply |-> TextReply(""),
     calls |-> <<>>, asked |-> FALSE, historyBefore |-> <<>>, appendedBefore |-> 0,
     phase |-> "Idle", requests |-> 0, row |-> 0, writes |-> <<>>,
     observed |-> NoPair, db |-> Constructed, sent |-> NoParams]

(***************************************************************************)
(* Inputs                                                                  *)
(***************************************************************************)
Food == <<"f", "o", "o", "d">>

Salary == <<"s", "a", "l", "a", "r", "y">>

Usd == <<"U", "S", "D">>

Etb == <<"E", "T", "B">>

\* "2024-7-1": accepted by strptime, not zero-padded
July1Short == <<"2", "0", "2", "4", "-", "7", "-", "1">>

\* "30/06/2024"
SlashDate == <<"3", "0", "/", "0", "6", "/", "2", "0", "2", "4">>

\* one field of an argument set replaced by each of the values
Vary(base, k, values) == {[base EXCEPT ![k] = v] : v \in values}

ExpenseBase ==
    [NoArgs EXCEPT !["amount"] = IntV(50), !["category"] = StrV(Food),
                   !["user_id"] = IntV(1)]

IncomeBase ==
    [NoArgs EXCEPT !["amount"] = IntV(20), !["source"] = StrV(Salary),
                   !["user_id"] = IntV(1)]

SummaryBase ==
    [NoArgs EXCEPT !["month"] = IntV(6), !["year"] = IntV(2024), !["user_id"] = IntV(1)]

RateBase ==
    [NoArgs EXCEPT !["from_currency"] = StrV(Usd), !["to_currency"] = StrV(Etb),
                   !["user_id"] = IntV(1)]

\* inputs that try the validation of log_expense and log_income
AmountInputs == {IntV(7), IntV(0), IntV(-5), StrV(<<"5", "0">>), None, Absent}

LabelInputs == {StrV(<<>>), None, IntV(7)}

BadDateInputs ==
    {StrV(SlashDate), StrV(DateStr(<<2024, 2, 30>>)), StrV(<<>>), IntV(20240701)}

NoUserInputs == {IntV(0), None, Absent}

ExpenseArgs ==
    {ExpenseBase} \cup Vary(ExpenseBase, "amount", AmountInputs)
        \cup Vary(ExpenseBase, "category", LabelInputs)
        \cup Vary(ExpenseBase, "date", BadDateInputs)
        \cup Vary(ExpenseBase, "user_id", NoUserInputs)
        \cup Vary(ExpenseBase, "source", {StrV(Salary)})
        \cup Vary([ExpenseBase EXCEPT !["amount"] = IntV(0)], "user_id", {None})
        \cup Vary([ExpenseBase EXCEPT !["amount"] = IntV(-5)], "date", {StrV(SlashDate)})

IncomeArgs ==
    {IncomeBase} \cup Vary(IncomeBase, "amount", AmountInputs)
        \cup Vary(IncomeBase, "source", LabelInputs)
        \cup Vary(IncomeBase, "date", BadDateInputs)
        \cup Vary(IncomeBase, "user_id", NoUserInputs)

RateArgs ==
    {RateBase} \cup Vary(RateBase, "from_currency", {StrV(<<>>), Absent})
        \cup Vary(RateBase, "user_id", NoUserInputs)

\* inputs that try the month arithmetic of get_monthly_summary
DatedExpenseArgs ==
    {ExpenseBase} \cup Vary(ExpenseBase, "user_id", {IntV(2)})
        \cup Vary(ExpenseBase, "date",
                  {StrV(DateStr(<<2024, 7, 1>>)), StrV(DateStr(<<2025, 1, 1>>)),
                   StrV(July1Short)})

DatedIncomeArgs ==
    {IncomeBase} \cup Vary(IncomeBase, "date", {StrV(DateStr(<<2024, 12, 31>>))})

MonthInputs == {IntV(7), IntV(12), IntV(0), IntV(13), IntV(-1), StrV(<<"6">>), None, Absent}

YearInputs == {IntV(1899), IntV(2101), IntV(1900), IntV(2100), IntV(0), None, Absent}

SummaryArgs ==
    {SummaryBase} \cup Vary(SummaryBase, "month", MonthInputs)
        \cup Vary(SummaryBase, "year", YearInputs)
        \cup Vary(SummaryBase, "user_id", {IntV(2)} \cup NoUserInputs)
        \cup Vary([SummaryBase EXCEPT !["month"] = IntV(13)], "year", {IntV(1899)})
        \cup Vary([SummaryBase EXCEPT !["month"] = IntV(12)], "user_id", {IntV(2)})

\* few inputs, for the runs in which the ledger is left to grow
FewExpenseArgs == {ExpenseBase} \cup Vary(ExpenseBase, "amount", {IntV(0)})

FewIncomeArgs == {IncomeBase} \cup Vary(IncomeBase, "user_id", {IntV(2)})

FewSummaryArgs == {SummaryBase} \cup Vary(SummaryBase, "user_id", {IntV(2)})

\* a part carrying a function call whose args are the mapping args
CallPart(name, args) ==
    [kind |-> "call", name |-> name, args |-> args, payload |-> "dict", text |-> ""]

\* a part carrying a function call whose args are no mapping and no JSON
MalformedPart(name) ==
    [kind |-> "call", name |-> name, args |-> NoArgs, payload |-> "malformed", text |-> ""]

\* a part carrying text
TextPart(text) ==
    [kind |-> "text", name |-> "", args |-> NoArgs, payload |-> "dict", text |-> text]

Parts(ps) == [kind |-> "parts", parts |-> ps]

\* the arguments the model extracts: it does not know of user_id, but may
\* send one all the same
ModelExpense == [ExpenseBase EXCEPT !["user_id"] = Absent]

ModelIncome == [IncomeBase EXCEPT !["user_id"] = Absent]

ModelRate == [RateBase EXCEPT !["user_id"] = Absent]

Responses ==
    {Parts(<<CallPart("log_expense", ModelExpense)>>),
     Parts(<<CallPart("log_expense", [ModelExpense EXCEPT !["user_id"] = IntV(2)])>>),
     Parts(<<CallPart("log_expense", [ModelExpense EXCEPT !["amount"] = IntV(0)])>>),
     Parts(<<CallPart("log_income", [ModelIncome EXCEPT !["user_id"] = IntV(1)])>>),
     Parts(<<CallPart("get_monthly_summary", [NoArgs EXCEPT !["user_id"] = IntV(2)])>>),
     Parts(<<CallPart("get_monthly_summary", [NoArgs EXCEPT !["month"] = IntV(13)])>>),
     Parts(<<CallPart("get_exchange_rate", ModelRate)>>),
     Parts(<<MalformedPart("log_expense")>>),
     Parts(<<CallPart("delete_transactions", NoArgs)>>),
     Parts(<<CallPart("delete_transactions", ModelExpense)>>),
     Parts(<<CallPart("log_expense", ModelExpense), CallPart("delete_transactions", NoArgs)>>),
     Parts(<<CallPart("log_expense", ModelExpense), TextPart("done")>>),
     Parts(<<TextPart("hello")>>),
     NoResponse,
     [kind |-> "no_candidates", parts |-> <<>>],
     [kind |-> "no_content", parts |-> <<>>],
     [kind |-> "raise", parts |-> <<>>]}

\* the identities process_message is called with
UserIds == {IntV(1), IntV(2), IntV(0), None}

\* the responses of a conversation that goes on and on
FewResponses ==
    {Parts(<<TextPart("hello")>>),
     Parts(<<CallPart("delete_transactions", NoArgs)>>),
     Parts(<<CallPart("get_monthly_summary", NoArgs)>>),
     [kind |-> "raise", parts |-> <<>>]}

(***************************************************************************)
(* The Financial Operations called directly                                *)
(***************************************************************************)
\* rows the model lets the ledger grow to where the inputs are many
MaxRows == 2

\* the state after a call of an operation that has come back with r
Invoked(r, name, args, prov, cap) ==
    /\ Len(r.transactions) <= cap
    /\ transactions' = r.transactions
    /\ pool' = r.pool
    /\ last' = [NoCall EXCEPT
                    !.op = name, !.args = args, !.prov = prov, !.raised = r.raised,
                    !.env = r.env, !.before = transactions, !.poolBefore = pool,
                    !.queried = r.queried, !.query = r.query, !.called = r.called,
                    !.sent = r.sent]

\* one call of an operation of FinancialFunctions with the keywords args
Invoke(name, args, prov, cap) ==
    Invoked(CallOperation(name, transactions, pool, now, prov, args), name, args, prov, cap)

LogExpense ==
    \E args \in ExpenseArgs :
        /\ Invoke("log_expense", args, "ok", MaxRows)
        /\ UNCHANGED <<users, tokens, now, chat_history, appended>>

LogIncome ==
    \E args \in IncomeArgs :
        /\ Invoke("log_income", args, "ok", MaxRows)
        /\ UNCHANGED <<users, tokens, now, chat_history, appended>>

GetMonthlySummary ==
    \E args \in FewSummaryArgs :
        /\ Invoke("get_monthly_summary", args, "ok", MaxRows)
        /\ UNCHANGED <<users, tokens, now, chat_history, appended>>

GetExchangeRate ==
    \E args \in RateArgs, prov \in ProviderOutcomes :
        /\ Invoke("get_exchange_rate", args, prov, MaxRows)
        /\ UNCHANGED <<users, tokens, now, chat_history, appended>>

\* one call of ExchangeRateAPI.get_exchange_rate
RateLookup ==
    \E prov \in ProviderOutcomes :
        LET r == api_get_exchange_rate(prov, now, StrV(Usd), StrV(Etb))
        IN  /\ last' = [NoCall EXCEPT !.op = "ExchangeRateAPI.get_exchange_rate",
                                      !.prov = prov, !.raised = r.raised, !.lookup = r]
            /\ UNCHANGED <<users, transactions, pool, tokens, now, chat_history, appended>>

\* currency codes in capitals, in small letters and mixed
CodeArgs ==
    {[RateBase EXCEPT !["from_currency"] = StrV(f), !["to_currency"] = StrV(t),
                      !["user_id"] = u] :
        f \in {Usd, <<"u", "s", "d">>, <<"U", "s", "d">>},
        t \in {Etb, <<"e", "t", "b">>},
        u \in {IntV(1), IntV(2), None}}

\* get_exchange_rate called with the codes as a user writes them; sent is the
\* query the provider received, if it was called
RequestRate ==
    \E args \in CodeArgs, prov \in ProviderOutcomes :
        /\ Invoke("get_exchange_rate", args, prov, MaxRows)
        /\ UNCHANGED <<users, tokens, now, chat_history, appended>>

\* the ledger filled with dated rows and summed month by month
LogDatedExpense ==
    \E args \in DatedExpenseArgs :
        /\ Invoke("log_expense", args, "ok", MaxRows)
        /\ UNCHANGED <<users, tokens, now, chat_history, appended>>

LogDatedIncome ==
    \E args \in DatedIncomeArgs :
        /\ Invoke("log_income", args, "ok", MaxRows)
        /\ UNCHANGED <<users, tokens, now, chat_history, appended>>

SummariseMonth ==
    \E args \in SummaryArgs :
        /\ Invoke("get_monthly_summary", args, "ok", MaxRows)
        /\ UNCHANGED <<users, tokens, now, chat_history, appended>>

\* the same operations with few inputs and the ledger left to grow
LogExpenseAgain ==
    \E args \in FewExpenseArgs :
        /\ Invoke("log_expense", args, "ok", MaxConnections)
        /\ UNCHANGED <<users, tokens, now, chat_history, appended>>

LogIncomeAgain ==
    \E args \in FewIncomeArgs :
        /\ Invoke("log_income", args, "ok", MaxConnections)
        /\ UNCHANGED <<users, tokens, now, chat_history, appended>>

GetMonthlySummaryAgain ==
    \E args \in FewSummaryArgs :
        /\ Invoke("get_monthly_summary", args, "ok", MaxConnections)
        /\ UNCHANGED <<users, tokens, now, chat_history, appended>>

(***************************************************************************)
(* Sessions: registration, authentication, resolution, the passing of time *)
(***************************************************************************)
\* tokens the model lets secrets.token_hex draw
MaxTokens == 3

\* hours the model lets the clock run
MaxHours == 50

\* what a registration is given: <<username, email, password>>
Registrations ==
    {<<"alice", "a@x", "pw">>, <<"al", "a@x", "pw">>, <<"alice", "b@x", "pw">>,
     <<"bob", "b@x", "pw">>}

\* what an authentication is given: <<username, password>>
Credentials == {<<"alice", "pw">>, <<"alice", "bad">>, <<"bob", "pw">>}

CreateUser ==
    \E reg \in Registrations :
        LET r == create_user(users, pool, tokens, now, reg[1], reg[2], reg[3])
        IN  /\ r.tokens <= MaxTokens
            /\ users' = r.users
            /\ tokens' = r.tokens
            /\ last' = [NoCall EXCEPT !.op = "create_user", !.raised = r.raised,
                                      !.username = reg[1], !.email = reg[2],
                                      !.password = reg[3],
                                      !.token = r.token, !.usersBefore = users]
            /\ UNCHANGED <<transactions, pool, now, chat_history, appended>>

AuthenticateUser ==
    \E cred \in Credentials :
        LET r == authenticate_user(users, pool, tokens, now, cred[1], cred[2])
        IN  /\ r.tokens <= MaxTokens
            /\ users' = r.users
            /\ tokens' = r.tokens
            /\ last' = [NoCall EXCEPT !.op = "authenticate_user", !.raised = r.raised,
                                      !.username = cred[1], !.password = cred[2],
                                      !.token = r.token, !.usersBefore = users]
            /\ UNCHANGED <<transactions, pool, now, chat_history, appended>>

GetUserByToken ==
    \E session_token \in 1..MaxTokens :
        LET r == get_user_by_token(users, pool, now, session_token)
        IN  /\ users' = r.users
            /\ last' = [NoCall EXCEPT !.op = "get_user_by_token", !.raised = r.raised,
                                      !.token = session_token, !.user = r.user,
                                      !.usersBefore = users]
            /\ UNCHANGED <<transactions, pool, tokens, now, chat_history, appended>>

\* an hour passes with no call in progress
Tick ==
    /\ now < MaxHours
    /\ now' = now + 1
    /\ last' = NoCall
    /\ UNCHANGED <<users, transactions, pool, tokens, chat_history, appended>>

(***************************************************************************)
(* Conversations                                                           *)
(***************************************************************************)
\* appends the model lets a conversation of many responses make
MaxTurns == 3

\* appends the model lets a conversation of few responses make
MaxAppends == 8

\* the state after a call of process_message that has done r
Conversed(r, message, user_id, resp, prov, cap, rows) ==
    /\ r.appended <= cap
    /\ Len(r.transactions) <= rows
    /\ chat_history' = r.chat_history
    /\ appended' = r.appended
    /\ transactions' = r.transactions
    /\ pool' = r.pool
    /\ last' = [NoCall EXCEPT
                    !.op = "process_message", !.user_id = user_id,
                    !.message = message, !.response = resp, !.prov = prov,
                    !.reply = r.reply, !.calls = r.calls, !.asked = r.asked,
                    !.before = transactions, !.poolBefore = pool,
                    !.historyBefore = chat_history, !.appendedBefore = appended]

\* one call of process_message
Converse(message, user_id, resp, prov, cap, rows) ==
    Conversed(process_message(chat_history, appended, transactions, pool, now,
                              message, user_id, resp, prov),
              message, user_id, resp, prov, cap, rows)

ProcessMessage ==
    \E user_id \in UserIds, resp \in Responses :
        /\ Converse("hi", user_id, resp, "ok", MaxTurns, MaxRows)
        /\ UNCHANGED <<users, tokens, now>>

ProcessMessageAgain ==
    \E message \in {"hi", "more"}, user_id \in {IntV(1), None}, resp \in FewResponses :
        /\ Converse(message, user_id, resp, "ok", MaxAppends, MaxRows)
        /\ UNCHANGED <<users, tokens, now>>

\* what each of two users writes, to tell their turns apart
MessageOf(user_id) == IF user_id = IntV(1) THEN "hi" ELSE "more"

\* two users talking to the one agent of app.py in turn
ProcessMessageOfUser ==
    \E user_id \in {IntV(1), IntV(2)}, resp \in FewResponses :
        /\ Converse(MessageOf(user_id), user_id, resp, "ok", MaxAppends, MaxRows)
        /\ UNCHANGED <<users, tokens, now>>

\* responses that select get_monthly_summary with and without month and
\* year, and one that selects log_expense
SummaryResponses ==
    {Parts(<<CallPart("get_monthly_summary",
                      [NoArgs EXCEPT !["month"] = m, !["year"] = y])>>) :
        m \in {Absent, None, IntV(0), IntV(6), IntV(13)},
        y \in {Absent, IntV(0), IntV(2023)}}
    \cup {Parts(<<CallPart("log_expense", ModelExpense)>>),
          Parts(<<TextPart("hello"), CallPart("get_monthly_summary", NoArgs)>>)}

\* a user asking for summaries
ProcessSummaryRequest ==
    \E resp \in SummaryResponses :
        /\ Converse("summary", IntV(1), resp, "ok", MaxTurns, MaxRows)
        /\ UNCHANGED <<users, tokens, now>>

\* what the model does with one request, one response of each kind
PhaseResponses ==
    {Parts(<<TextPart("hello")>>),
     Parts(<<CallPart("log_expense", ModelExpense)>>),
     Parts(<<MalformedPart("log_expense")>>),
     Parts(<<CallPart("delete_transactions", NoArgs)>>),
     NoResponse,
     [kind |-> "no_candidates", parts |-> <<>>],
     [kind |-> "no_content", parts |-> <<>>],
     [kind |-> "raise", parts |-> <<>>]}

\* process_message up to the call of generate_content: the user turn is
\* appended and the one request sent; without a user_id it returns at once
BeginTurn ==
    \E user_id \in {IntV(1), None} :
        /\ last.phase = "Idle"
        /\ appended + 2 <= MaxAppends
        /\ Len(transactions) + 1 <= MaxRows
        /\ chat_history' = IF Truthy(user_id)
                           THEN DequeAppend(chat_history,
                                            Turn("user", TextReply("hi"), appended + 1))
                           ELSE chat_history
        /\ appended' = IF Truthy(user_id) THEN appended + 1 ELSE appended
        /\ last' = [NoCall EXCEPT
                        !.op = "process_message", !.user_id = user_id, !.message = "hi",
                        !.phase = IF Truthy(user_id) THEN "AwaitingModel" ELSE "Idle",
                        !.requests = IF Truthy(user_id) THEN 1 ELSE 0,
                        !.reply = IF Truthy(user_id) THEN TextReply("") ELSE LoginReply,
                        !.before = transactions, !.poolBefore = pool,
                        !.historyBefore = chat_history, !.appendedBefore = appended]
        /\ UNCHANGED <<users, transactions, pool, tokens, now>>

\* generate_content ends: with an answer, or with an exception, which the
\* except clause turns into the apology
ModelResponds ==
    \E resp \in PhaseResponses :
        /\ last.phase = "AwaitingModel"
        /\ last' = [last EXCEPT
                        !.response = resp,
                        !.phase = Responded(resp, last.requests).phase,
                        !.requests = Responded(resp, last.requests).requests,
                        !.asked = TRUE,
                        !.reply = IF resp.kind = "raise" THEN ApologyReply ELSE @]
        /\ UNCHANGED <<users, transactions, pool, tokens, now, chat_history, appended>>

\* the state after the rest of process_message has done r
Returned(r) ==
    /\ chat_history' = r.chat_history
    /\ appended' = r.appended
    /\ transactions' = r.transactions
    /\ pool' = r.pool
    /\ last' = [last EXCEPT !.phase = "Idle", !.reply = r.reply, !.calls = r.calls]

\* process_message from the answer of the model to its return statement
ReturnReply ==
    /\ last.phase = "Rendering"
    /\ Returned(AfterUserTurn(chat_history, appended, transactions, pool, now,
                              last.user_id, last.response, "ok"))
    /\ UNCHANGED <<users, tokens, now>>

\* responses that carry one, two and three function-call parts, and
\* responses whose text comes in one part and in two
ManyPartResponses ==
    {Parts(<<CallPart("log_expense", ModelExpense)>>),
     Parts(<<CallPart("log_expense", ModelExpense), CallPart("log_income", ModelIncome)>>),
     Parts(<<TextPart("done"), CallPart("log_income", ModelIncome),
             CallPart("get_monthly_summary", NoArgs), CallPart("log_expense", ModelExpense)>>),
     Parts(<<CallPart("get_monthly_summary", NoArgs), TextPart("hello")>>),
     Parts(<<TextPart("hello")>>),
     Parts(<<TextPart("You have "), TextPart("no expenses.")>>)}

\* the model answering with several parts
ProcessManyParts ==
    \E user_id \in {IntV(1), IntV(2)}, resp \in ManyPartResponses :
        /\ Converse("log both", user_id, resp, "ok", MaxAppends, MaxConnections - 1)
        /\ UNCHANGED <<users, tokens, now>>

\* the responses of a conversation that logs again and again
LogResponses ==
    {Parts(<<CallPart("log_expense", ModelExpense)>>),
     Parts(<<CallPart("log_income", ModelIncome)>>),
     Parts(<<TextPart("hello")>>)}

ProcessLogAgain ==
    \E resp \in LogResponses :
        /\ Converse("log 50 for food", IntV(1), resp, "ok", MaxAppends + 1, MaxConnections)
        /\ UNCHANGED <<users, tokens, now>>

(***************************************************************************)
(* Requests to /api/chat                                                   *)
(***************************************************************************)
\* the state after a request to /api/chat that was answered with r
Chatted(r, session_token, data, resp, cap) ==
    /\ r.done.appended <= cap
    /\ Len(r.done.transactions) <= MaxRows
    /\ chat_history' = r.done.chat_history
    /\ appended' = r.done.appended
    /\ transactions' = r.done.transactions
    /\ pool' = r.done.pool
    /\ last' = [NoCall EXCEPT
                    !.op = "chat", !.token = session_token, !.status = r.status,
                    !.invoked = r.invoked, !.user_id = r.user_id,
                    !.message = data.message, !.response = resp,
                    !.reply = r.done.reply, !.calls = r.done.calls,
                    !.asked = r.done.asked, !.before = transactions,
                    !.poolBefore = pool, !.usersBefore = users,
                    !.historyBefore = chat_history, !.appendedBefore = appended]

\* most of a day, or a little more than a day, passes with no call in progress
Wait ==
    \E hours \in {23, 25} :
        /\ now + hours <= MaxHours
        /\ now' = now + hours
        /\ last' = NoCall
        /\ UNCHANGED <<users, transactions, pool, tokens, chat_history, appended>>

\* one request to /api/chat
ChatRequest ==
    \E session_token \in 0..MaxTokens, data \in {Data("hi"), NoData} :
        /\ Chatted(chat(users, chat_history, appended, transactions, pool, now,
                        session_token, data,
                        Parts(<<CallPart("log_expense", ModelExpense)>>), "ok"),
                   session_token, data,
                   Parts(<<CallPart("log_expense", ModelExpense)>>), 2)
        /\ UNCHANGED <<users, tokens, now>>

(***************************************************************************)
(* Authentication step by step, with readers on other connections         *)
(***************************************************************************)
\* a registration while no authentication is in progress
Register ==
    /\ last.phase = "Idle"
    /\ CreateUser

\* time passing while no authentication is in progress
WaitIdle ==
    /\ last.phase = "Idle"
    /\ Wait

\* authenticate_user up to its UPDATE: the row is looked up and the password
\* checked; r is what the whole call comes to, i the row it found
Began(r, i, cred) ==
    /\ r.tokens <= MaxTokens
    /\ tokens' = r.tokens
    /\ last' = [NoCall EXCEPT
                    !.op = "authenticate_user", !.raised = r.raised,
                    !.username = cred[1], !.password = cred[2], !.token = r.token,
                    !.usersBefore = users,
                    !.row = IF r.token = NoToken THEN 0 ELSE i,
                    !.phase = IF r.token = NoToken THEN "Idle" ELSE "Updating",
                    !.writes = IF r.token = NoToken THEN <<>>
                               ELSE RotationWrites(users, i, r.token, now)]

BeginAuthenticate ==
    \E cred \in Credentials, i \in 0..Len(users) :
        /\ last.phase = "Idle"
        /\ i = IF \E j \in DOMAIN users : users[j].username = cred[1]
               THEN CHOOSE j \in DOMAIN users : users[j].username = cred[1]
               ELSE 0
        /\ Began(authenticate_user(users, pool, tokens, now, cred[1], cred[2]), i, cred)
        /\ UNCHANGED <<users, transactions, pool, now, chat_history, appended>>

\* the next commit of the authentication in progress reaches the table
CommitWrite ==
    /\ last.phase = "Updating"
    /\ users' = Head(last.writes)
    /\ last' = [last EXCEPT !.writes = Tail(@),
                            !.phase = IF Tail(last.writes) = <<>> THEN "Idle"
                                      ELSE "Updating"]
    /\ UNCHANGED <<transactions, pool, tokens, now, chat_history, appended>>

\* get_user_by_token on another connection, during or after the
\* authentication: it reads the committed table
ResolveMeanwhile ==
    \E session_token \in 1..MaxTokens :
        /\ last.op = "authenticate_user"
        /\ last.row # 0
        /\ users' = get_user_by_token(users, pool, now, session_token).users
        /\ last' = [last EXCEPT
                        !.user = get_user_by_token(users, pool, now, session_token).user,
                        !.observed = Pair(users[last.row])]
        /\ UNCHANGED <<transactions, pool, tokens, now, chat_history, appended>>

(***************************************************************************)
(* Database() constructed by several threads                               *)
(***************************************************************************)
\* the lock is taken without waiting for its holder
LockIgnored(db) == TRUE

\* with cls._lock: the lock can be taken
LockFree(db) == db.lock = 0

Step(t, db) ==
    /\ last' = [last EXCEPT !.db = db]
    /\ UNCHANGED <<users, transactions, tokens, now, chat_history, appended>>

\* __new__ enters its with-block
AcquireLock ==
    \E t \in Threads :
        /\ last.db.pc[t] = "new"
        /\ LockFree(last.db)
        /\ Step(t, [last.db EXCEPT !.lock = t, !.pc[t] = "check"])
        /\ UNCHANGED pool

\* if cls._instance is None
CheckInstance ==
    \E t \in Threads :
        /\ last.db.pc[t] = "check"
        /\ Step(t, [last.db EXCEPT !.pc[t] = IF last.db.instance = 0 THEN "create"
                                              ELSE "return"])
        /\ UNCHANGED pool

\* cls._instance = super(Database, cls).__new__(cls)
CreateInstance ==
    \E t \in Threads :
        /\ last.db.pc[t] = "create"
        /\ last.db.created < MaxThreads
        /\ Step(t, [last.db EXCEPT !.created = @ + 1, !.instance = last.db.created + 1,
                                   !.pc[t] = "pool"])
        /\ UNCHANGED pool

\* _initialize_pool: _max_connections connections opened and put in the queue
InitializePool ==
    \E t \in Threads :
        /\ last.db.pc[t] = "pool"
        /\ pool' = pool + MaxConnections
        /\ Step(t, [last.db EXCEPT !.put = @ + MaxConnections, !.pc[t] = "tables"])

\* _create_tables: it takes a connection from the queue and keeps it
CreateTables ==
    \E t \in Threads :
        /\ last.db.pc[t] = "tables"
        /\ GetConnectionOK(pool)
        /\ pool' = pool - 1
        /\ Step(t, [last.db EXCEPT !.tables = @ + 1, !.pc[t] = "return"])

\* return cls._instance, leaving the with-block
ReturnInstance ==
    \E t \in Threads :
        /\ last.db.pc[t] = "return"
        /\ Step(t, [last.db EXCEPT !.got[t] = last.db.instance,
                                   !.lock = IF last.db.lock = t THEN 0 ELSE @,
                                   !.pc[t] = "init"])
        /\ UNCHANGED pool

\* __init__ up to verify_database_setup's conn = self._get_connection()
BeginVerify ==
    \E t \in Threads :
        /\ last.db.pc[t] = "init"
        /\ GetConnectionOK(pool)
        /\ pool' = pool - 1
        /\ Step(t, [last.db EXCEPT !.pc[t] = "verify"])

\* verify_database_setup's finally: self._return_connection(conn)
EndVerify ==
    \E t \in Threads :
        /\ last.db.pc[t] = "verify"
        /\ pool' = pool + 1
        /\ Step(t, [last.db EXCEPT !.pc[t] = "done"])

\* the process before any Database() call: no instance, an empty queue
InitNew ==
    /\ users = <<>>
    /\ transactions = <<>>
    /\ pool = 0
    /\ tokens = 0
    /\ now = 0
    /\ chat_history = <<>>
    /\ appended = 0
    /\ last = [NoCall EXCEPT !.db = NotConstructed]

Init ==
    /\ users = <<>>
    /\ transactions = <<>>
    /\ pool = PoolAfterNew
    /\ tokens = 0
    /\ now = 0
    /\ chat_history = <<>>
    /\ appended = 0
    /\ last = NoCall

Next == LogExpense \/ LogIncome \/ GetMonthlySummary \/ GetExchangeRate

\* the four operations called directly, in any order, with any of the inputs
Spec == Init /\ [][Next]_vars

NextSummary == LogDatedExpense \/ LogDatedIncome \/ SummariseMonth

\* dated rows logged and months summed
SpecSummary == Init /\ [][NextSummary]_vars

NextLedger == LogExpenseAgain \/ LogIncomeAgain \/ GetMonthlySummaryAgain

\* the operations called again and again, until the store stops answering
SpecLedger == Init /\ [][NextLedger]_vars

NextAuth == CreateUser \/ AuthenticateUser \/ GetUserByToken \/ Tick

\* one account registered, signed in to and resolved while the hours pass
SpecAuth == Init /\ [][NextAuth]_vars

NextAgent == ProcessMessage

\* messages processed by the dispatcher, the model answering in any way
SpecAgent == Init /\ [][NextAgent]_vars

NextChat == ProcessMessageAgain

\* a long conversation
SpecChat == Init /\ [][NextChat]_vars

NextTurns == ProcessLogAgain

\* one user logging through the dispatcher until the store stops answering
SpecTurns == Init /\ [][NextTurns]_vars

NextIdentity == LogExpense \/ LogIncome \/ SummariseMonth \/ GetExchangeRate

\* the four operations called with and without a user identity
SpecIdentity == Init /\ [][NextIdentity]_vars

NextFill == ProcessSummaryRequest \/ Wait

\* summaries asked for through the dispatcher while the days pass
SpecFill == Init /\ [][NextFill]_vars

\* WF_vars(ReturnReply) written out, ENABLED <<ReturnReply>>_vars being
\* last.phase = "Rendering": the rest of process_message is defined for every
\* answer and every step of it ends the phase
ReturnReplyFair ==
    []<>(last.phase # "Rendering") \/ []<><<ReturnReply>>_vars

NextPhases == BeginTurn \/ ModelResponds \/ ReturnReply

\* calls of process_message step by step; a call that has begun goes on, and
\* the model answers or fails
SpecPhases ==
    Init /\ [][NextPhases]_vars /\ WF_vars(ModelResponds) /\ ReturnReplyFair

NextRotate ==
    Register \/ WaitIdle \/ BeginAuthenticate \/ CommitWrite \/ ResolveMeanwhile

\* authentications step by step with resolutions on other connections
SpecRotate == Init /\ [][NextRotate]_vars

NextParts == ProcessManyParts

\* turns in which the model answers with several parts
SpecParts == Init /\ [][NextParts]_vars

NextNew ==
    \/ AcquireLock \/ CheckInstance \/ CreateInstance \/ InitializePool
    \/ CreateTables \/ ReturnInstance \/ BeginVerify \/ EndVerify

\* Database() constructed by every thread at once, from an empty process
SpecNew == InitNew /\ [][NextNew]_vars

NextRate == RequestRate

\* exchange rates asked for with codes in any letter case
SpecRate == Init /\ [][NextRate]_vars

NextShared == ProcessMessageOfUser

\* two users' conversations through the one dispatcher
SpecShared == Init /\ [][NextShared]_vars

NextFaults ==
    \/ LogExpense \/ LogIncome \/ GetExchangeRate \/ RateLookup
    \/ LogExpenseAgain \/ GetMonthlySummaryAgain

\* the operations called with any of the inputs, the provider failing in any
\* way, until the store stops answering
SpecFaults == Init /\ [][NextFaults]_vars

NextGate == CreateUser \/ AuthenticateUser \/ GetUserByToken \/ Wait \/ ChatRequest

\* accounts registered and signed in to, their tokens resolved and presented
\* to /api/chat as days pass
SpecGate == Init /\ [][NextGate]_vars

(***************************************************************************)
(* Properties                                                              *)
(***************************************************************************)
LastIsLog == last.op \in {"log_expense", "log_income"} /\ ~last.raised

LastLabel == IF last.op = "log_expense" THEN last.args["category"] ELSE last.args["source"]

\* the arguments of the last log_expense or log_income call were all valid
ValidLogCall ==
    /\ LastIsLog
    /\ IsNumber(last.args["amount"]) /\ last.args["amount"].n > 0
    /\ IsStr(LastLabel) /\ LastLabel.s # <<>>
    /\ \/ last.args["date"] = Absent
       \/ IsStr(last.args["date"]) /\ StrptimeOK(last.args["date"].s)
    /\ Truthy(last.args["user_id"])

\* the last call added exactly one row to the ledger and changed no other
OneRowAdded ==
    /\ Len(transactions) = Len(last.before) + 1
    /\ SubSeq(transactions, 1, Len(last.before)) = last.before

\* C1: in every reachable store state, log_expense or log_income called with
\* an amount > 0, a non-empty category or source, an absent or valid date and
\* a user identity inserts exactly one new row and returns success.
C1_ValidLogPersistsOneRow == ValidLogCall => last.env.success /\ OneRowAdded

\* the rows of the ledger that belong to user_id and whose date d satisfies
\* start <= d < end, start being the first day of the month and end the first
\* day of the following month
RowsOfMonth(user_id, year, month) ==
    {i \in DOMAIN transactions :
        /\ transactions[i].user_id = user_id
        /\ StrLessEq(FirstOfMonth(year, month), transactions[i].date.s)
        /\ StrLess(transactions[i].date.s,
                   IF month = 12 THEN FirstOfMonth(year + 1, 1)
                   ELSE FirstOfMonth(year, month + 1))}

\* the last call was a successful get_monthly_summary of an explicit month
SummaryOfGivenMonth ==
    /\ last.op = "get_monthly_summary" /\ ~last.raised /\ last.env.success
    /\ last.args["month"].t = "int" /\ last.args["month"].n \in 1..12
    /\ last.args["year"].t = "int" /\ last.args["year"].n \in 1900..2100

\* C3: get_monthly_summary(month, year, user_id) aggregates exactly the user's
\* transactions dated from the first day of the month up to, and not
\* including, the first day of the following month.
C3_SummaryCountsHalfOpenMonth ==
    SummaryOfGivenMonth =>
        last.env.summary.transactions =
            Cardinality(RowsOfMonth(last.args["user_id"], last.args["year"].n,
                                    last.args["month"].n))

\* the amount given to the last log call is not numeric, or is <= 0
BadAmountGiven ==
    /\ LastIsLog
    /\ last.args["amount"] # Absent
    /\ ~(last.args["amount"].t \in {"int", "bool"}) \/ last.args["amount"].n <= 0

ValidationErrors ==
    {"Amount must be a positive number", "User ID is required for transactions"}

\* C6: log_expense or log_income called with an amount that is <= 0 or not
\* numeric returns a failure envelope with a validation error and leaves the
\* stored transactions unchanged.
C6_BadAmountRejected ==
    BadAmountGiven =>
        /\ ~last.env.success
        /\ last.env.error \in ValidationErrors
        /\ transactions = last.before
        /\ pool = last.poolBefore

\* a zero amount was refused while the ledger held a row, which it still holds
C6_Witness ==
    /\ last.op = "log_income"
    /\ last.args["amount"] = IntV(0)
    /\ last.env.error = "Amount must be a positive number"
    /\ Len(transactions) > 0
    /\ transactions = last.before

\* C7: get_monthly_summary called with a month outside 1..12 (13, 0, ...)
\* returns a validation error and computes no summary.
C7_MonthOutOfRangeRejected ==
    (/\ last.op = "get_monthly_summary" /\ ~last.raised
     /\ last.args["month"].t = "int"
     /\ last.args["month"].n \notin 1..12)
        => ~last.env.success /\ ~last.queried

\* C8: get_monthly_summary called with a year below 1900 or above 2100
\* returns a validation error and performs no store query.
C8_YearOutOfRangeRejected ==
    (/\ last.op = "get_monthly_summary" /\ ~last.raised
     /\ last.args["year"].t = "int"
     /\ (last.args["year"].n < 1900 \/ last.args["year"].n > 2100))
        => ~last.env.success /\ ~last.queried

\* the rows of the ledger that match the query the last summary made
Matching ==
    {i \in DOMAIN transactions :
        /\ transactions[i].user_id = last.query.user_id
        /\ ~StrLess(transactions[i].date.s, last.query.start_date)
        /\ ~StrLess(last.query.end_date, transactions[i].date.s)}

RECURSIVE Total(_, _)
\* the amounts of the rows I that are of the given kind, added up
Total(I, kind) ==
    IF I = {} THEN 0
    ELSE LET i == CHOOSE i \in I : TRUE
         IN  (IF transactions[i].transaction_type = kind
              THEN transactions[i].amount.n ELSE 0) + Total(I \ {i}, kind)

\* C9: every successful get_monthly_summary has balance = income - expenses,
\* income and expenses being the sums over the matching income and expense
\* rows, and transactions the number of matching rows.
C9_SummaryAddsUp ==
    (last.op = "get_monthly_summary" /\ ~last.raised /\ last.env.success) =>
        /\ last.env.summary.income = Total(Matching, "income")
        /\ last.env.summary.expenses = Total(Matching, "expense")
        /\ last.env.summary.balance = Total(Matching, "income") - Total(Matching, "expense")
        /\ last.env.summary.transactions = Cardinality(Matching)

\* a summary over an income row and an expense row of different amounts
C9_Witness ==
    /\ last.op = "get_monthly_summary" /\ last.env.success
    /\ last.env.summary.income > 0
    /\ last.env.summary.expenses > last.env.summary.income
    /\ last.env.summary.balance < 0
    /\ last.env.summary.transactions = 2

\* the hour at which a last_login text was written
HourOf(cs) == CHOOSE h \in 0..MaxHours : IsoFormat(h) = cs

\* the last call resolved the token that an authentication gave user i
ResolvedTokenOf(i) ==
    /\ last.op = "get_user_by_token" /\ ~last.raised
    /\ users[i].last_login # None
    /\ last.token = users[i].session_token

\* C4: a session credential issued by a successful authentication at time T
\* resolves at T+23h and fails to resolve at T+25h, whatever the time of day
\* it was issued at: resolving succeeds only while less than 24 hours have
\* passed since the user's last successful authentication.
C4_SessionLastsOneDay ==
    \A i \in DOMAIN users :
        ResolvedTokenOf(i) =>
            LET elapsed == now - HourOf(users[i].last_login.s)
            IN  /\ elapsed <= 23 => last.user.success
                /\ elapsed >= 25 => ~last.user.success


\* the last call was a process_message for an identified user
LastIsTurn == last.op = "process_message" /\ Truthy(last.user_id)

\* the rows the last call added
NewRows == {i \in DOMAIN transactions : i > Len(last.before)}

\* C2: whenever the dispatcher executes an operation the model selected, the
\* user_id the operation runs with, and the user_id of any row it inserts,
\* is the identity the session passed in; a user_id in the model's argument
\* set is always overwritten.
C2_OperationsRunAsSessionUser ==
    LastIsTurn =>
        /\ \A k \in DOMAIN last.calls : last.calls[k].args["user_id"] = last.user_id
        /\ \A i \in NewRows : transactions[i].user_id = last.user_id

\* the model sent a user_id other than the session's with a log_expense,
\* and the row was inserted
C2_Witness ==
    /\ LastIsTurn
    /\ NewRows # {}
    /\ \E k \in DOMAIN last.response.parts :
          /\ last.response.parts[k].name = "log_expense"
          /\ last.response.parts[k].args["user_id"].t = "int"
          /\ last.response.parts[k].args["user_id"] # last.user_id

\* C5: after any sequence of process_message calls the history holds at most
\* 5 turns, the most recently appended ones in the order of appending; a 6th
\* append evicts the 1st, and a turn leaves the history in no other way.
C5_HistoryKeepsLastFive ==
    /\ Len(chat_history) <= 5
    /\ Len(chat_history) = IF appended < 5 THEN appended ELSE 5
    /\ \A i \in DOMAIN chat_history :
          chat_history[i].n = appended - Len(chat_history) + i
    /\ last.op = "process_message" =>
          \A j \in DOMAIN last.historyBefore :
              last.historyBefore[j].n > appended - 5 =>
                  \E i \in DOMAIN chat_history : chat_history[i] = last.historyBefore[j]

\* the 6th append has just evicted the 1st turn
C5_Witness ==
    /\ last.op = "process_message"
    /\ appended = 6
    /\ Len(chat_history) = 5
    /\ chat_history[1].n = 2
    /\ last.historyBefore[1].n = 1

\* the model's response selects an operation of an unknown name
SelectsUnknown ==
    /\ last.response.kind = "parts"
    /\ \E k \in DOMAIN last.response.parts :
          /\ last.response.parts[k].kind = "call"
          /\ last.response.parts[k].name \notin
                {"log_expense", "log_income", "get_monthly_summary", "get_exchange_rate"}

\* C10: when the model's response selects an operation whose name is not one
\* of the four, the reply is the fixed "don't know how to handle" text and
\* the turn writes nothing to the store.
C10_UnknownOperationWritesNothing ==
    (LastIsTurn /\ SelectsUnknown) =>
        /\ last.reply = UnknownReply
        /\ transactions = last.before


\* the model selected log_expense with amount 50 and category food, no date
\* and nothing else, for identity 1
SelectsFoodExpense ==
    /\ last.op = "process_message"
    /\ last.user_id = IntV(1)
    /\ last.response = Parts(<<CallPart("log_expense",
           [NoArgs EXCEPT !["amount"] = IntV(50),
                          !["category"] = StrV(<<"f", "o", "o", "d">>)])>>)

\* C11: for a message of identity 1 for which the model selects log_expense
\* with amount 50, category food and no date, the store gains exactly one
\* expense row owned by user 1 and dated today, and the reply carries the
\* operation's message "Expense of $50.00 for food on <today>".
C11_FoodExpenseEndToEnd ==
    SelectsFoodExpense =>
        /\ Len(transactions) = Len(last.before) + 1
        /\ SubSeq(transactions, 1, Len(last.before)) = last.before
        /\ transactions[Len(transactions)].user_id = IntV(1)
        /\ transactions[Len(transactions)].transaction_type = "expense"
        /\ transactions[Len(transactions)].amount = IntV(50)
        /\ transactions[Len(transactions)].date = StrV(Today(now))
        /\ last.reply.env.success
        /\ last.reply.env.message =
               [kind |-> "Expense",
                amount |-> StrV(<<"5", "0", ".", "0", "0">>),
                category |-> StrV(<<"f", "o", "o", "d">>),
                date |-> StrV(Today(now))]


\* the last call was one of the four operations, given keywords it accepts
OperationInvoked ==
    /\ last.op \in {"log_expense", "log_income", "get_monthly_summary", "get_exchange_rate"}
    /\ BindOK(last.args, Params(last.op), Required(last.op))

\* an envelope is {success: true, ...} or {success: false, error}
IsEnvelope(env) ==
    IF env.success THEN env.error = ""
    ELSE /\ env.error # ""
         /\ env.message = NoMessage /\ env.summary = NoSummary /\ env.rate = NoRate

\* C12: each of the four operations, for every argument set it can be
\* invoked with and every fault of the store or of the rate provider,
\* returns a success envelope or a failure envelope with its error; nothing
\* leaves the operation as an exception.
C12_OperationsReturnEnvelopes ==
    OperationInvoked => ~last.raised /\ IsEnvelope(last.env)

\* a valid log_expense met an empty pool and returned the failure envelope
C12_Witness ==
    /\ last.op = "log_expense" /\ ValidLogCall
    /\ last.poolBefore = 0
    /\ ~last.raised
    /\ last.env = Failure(PoolTimeoutError)

\* C20: ExchangeRateAPI.get_exchange_rate returns {success: false, error} on
\* every failure of the transport or of the provider (an HTTP error status,
\* an unreachable provider, a payload without the result or updated field)
\* and never raises to its caller.
C20_LookupNeverRaises ==
    (last.op = "ExchangeRateAPI.get_exchange_rate" /\ last.prov # "ok") =>
        /\ ~last.raised
        /\ ~last.lookup.success
        /\ last.lookup.error # ""


\* the keywords the dispatcher calls the operation of part k with
KeywordsOf(k) ==
    FillYearMonth(last.response.parts[k].name,
                  InjectUser(ArgsOf(last.response.parts[k]), last.user_id), now)

\* an exception was raised in the last turn: by the call of the model, or by
\* the call of the operation of the first part with keywords it does not accept
TurnRaised ==
    /\ LastIsTurn
    /\ \/ last.response.kind = "raise"
       \/ /\ last.response.kind = "parts" /\ last.response.parts # <<>>
          /\ last.response.parts[1].kind = "call"
          /\ last.response.parts[1].name \in OperationNames
          /\ ~BindOK(KeywordsOf(1), Params(last.response.parts[1].name),
                     Required(last.response.parts[1].name))

\* C13: an exception raised while the dispatcher processes a message is
\* caught inside process_message and becomes the fixed apology reply; the
\* call returns, and the user turn appended at its start stays in the
\* history.
C13_ExceptionsBecomeApology ==
    TurnRaised =>
        /\ ~last.raised
        /\ last.reply = ApologyReply
        /\ appended = last.appendedBefore + 1
        /\ chat_history =
               DequeAppend(last.historyBefore,
                           Turn("user", TextReply(last.message), last.appendedBefore + 1))
        /\ transactions = last.before

\* an operation called with an empty argument set raised in the second turn
C13_Witness ==
    /\ TurnRaised
    /\ last.response.kind = "parts"
    /\ last.historyBefore # <<>>
    /\ last.reply = ApologyReply
    /\ chat_history[Len(chat_history)].role = "user"


\* the last call was a request to /api/chat whose credential was missing,
\* unknown, or expired: issued to a user by an authentication 24 hours ago
\* or more, or replaced since
BadCredential ==
    /\ last.op = "chat"
    /\ \/ last.token = NoToken
       \/ \A i \in DOMAIN users : users[i].session_token # last.token
       \/ \E i \in DOMAIN users :
             /\ users[i].session_token = last.token
             /\ users[i].last_login # None
             /\ now - HourOf(users[i].last_login.s) >= 24

\* C14: a request to /api/chat whose session credential is missing, unknown
\* or expired is answered 401 and causes no call of the dispatcher, no
\* change of the history and no store write.
C14_BadCredentialStopsAtGate ==
    BadCredential =>
        /\ last.status = 401
        /\ ~last.invoked /\ ~last.asked
        /\ chat_history = last.historyBefore
        /\ transactions = last.before


\* the last call was an authenticate_user that returned a token
SignedIn == last.op = "authenticate_user" /\ ~last.raised /\ last.token # NoToken

\* token session_token resolves now
Resolves(session_token) ==
    get_user_by_token(users, pool, now, session_token).user.success

\* C15: a successful authenticate replaces the user's session credential
\* with a newly issued one and sets last-login to the current time; the
\* credential the user held before no longer resolves, and at most one
\* credential per user resolves at any time.
C15_AuthenticateRotatesCredential ==
    /\ SignedIn =>
          \E i \in DOMAIN users :
              /\ users[i].username = last.username
              /\ users[i].session_token = last.token
              /\ users[i].last_login = StrV(IsoFormat(now))
              /\ \A j \in DOMAIN last.usersBefore :
                    last.usersBefore[j].session_token # last.token
              /\ ~Resolves(last.usersBefore[i].session_token)
              /\ Resolves(last.token)
    /\ \A i \in DOMAIN users :
          Cardinality({t \in 1..MaxTokens :
              LET r == get_user_by_token(users, pool, now, t)
              IN  r.user.success /\ r.user.user_id = users[i].id}) <= 1

\* a user who had signed in before signed in again, a day later
C15_Witness ==
    /\ SignedIn
    /\ now > 0
    /\ \E i \in DOMAIN users :
          /\ users[i].username = last.username
          /\ last.usersBefore[i].last_login # None

\* the contents handed to the model in the last call of process_message
Sent == Contents(last.historyBefore, last.appendedBefore, last.message, last.user_id)

\* the position in sent of the user turn that the turn at i answers or is:
\* a reply was appended right after the user turn of its call; 0 for a reply
\* whose user turn the deque has dropped
UserTurnOf(sent, i) ==
    IF sent[i].role = "user" THEN i
    ELSE IF i > 1 /\ sent[i - 1].role = "user" /\ sent[i - 1].n = sent[i].n - 1
    THEN i - 1
    ELSE 0

\* C16: the turns sent to the model for a request of user A are turns of A's
\* own conversation: every message in them is one A wrote and every reply in
\* them answers a message A wrote, never a message or reply of another user.
C16_TurnsSentAreOwn ==
    (LastIsTurn /\ last.asked) =>
        \A i \in DOMAIN Sent :
            UserTurnOf(Sent, i) # 0 =>
                Sent[UserTurnOf(Sent, i)].text = TextReply(MessageOf(last.user_id))

\* the last call reached the store: a log call with valid arguments or a
\* summary that asked for rows
StoreCalled == ValidLogCall \/ (last.op = "get_monthly_summary" /\ last.queried)

\* C17: a store operation called when every pooled connection is taken waits
\* out the timeout and fails with the error "Database connection timeout",
\* and the connections handed out at once never exceed the pool bound of 5.
C17_ExhaustedPoolTimesOut ==
    /\ pool \in 0..MaxConnections
    /\ (StoreCalled /\ last.poolBefore = 0) =>
          /\ ~last.raised
          /\ last.env = Failure(ConnectionTimeout)
          /\ transactions = last.before

\* the users who, before the last create_user, held the username or the
\* email it was given
Holders ==
    {i \in DOMAIN last.usersBefore :
        \/ last.usersBefore[i].username = last.username
        \/ last.usersBefore[i].email = last.email}

\* C18: create_user given a username or an email that an existing user holds
\* returns None and does not raise, adds no row and leaves every existing
\* row, password hash, session token and last_login included, as it was;
\* no two users ever share a username or an email.
C18_ConflictLeavesUsersUnchanged ==
    /\ (last.op = "create_user" /\ GetConnectionOK(pool) /\ Holders # {}) =>
          /\ ~last.raised
          /\ last.token = NoToken
          /\ users = last.usersBefore
    /\ \A i, j \in DOMAIN users :
          i # j => /\ users[i].username # users[j].username
                   /\ users[i].email # users[j].email

\* a registration under a new username was turned down for its email, which
\* a user who has signed in holds
C18_Witness ==
    /\ last.op = "create_user"
    /\ Holders # {}
    /\ \A i \in Holders :
          /\ users[i].username # last.username
          /\ users[i].last_login # None
    /\ last.token = NoToken

\* the last call was one of the four operations, given every keyword it
\* requires and no user_id, or None or 0 for it
NoIdentityGiven ==
    /\ OperationInvoked
    /\ last.args["user_id"] \in NoUserInputs

\* C19: log_expense, log_income, get_monthly_summary and get_exchange_rate
\* called without a user identity return the failure envelope, write no row,
\* read no rows and make no call of the rate provider; no identity is put in
\* the place of the missing one.
C19_NoIdentityNoEffect ==
    NoIdentityGiven =>
        /\ ~last.raised
        /\ last.env = Failure("User ID is required for transactions")
        /\ transactions = last.before
        /\ pool = last.poolBefore
        /\ ~last.queried
        /\ ~last.called

\* log_expense called without the user_id keyword, its other arguments valid
\* and the ledger holding a row of user 1, was refused
C19_Witness ==
    /\ last.op = "log_expense"
    /\ last.args = [ExpenseBase EXCEPT !["user_id"] = Absent]
    /\ \E i \in DOMAIN transactions : transactions[i].user_id = IntV(1)
    /\ last.env = Failure("User ID is required for transactions")

\* C21: the ledger is append-only: every step leaves each stored transaction,
\* its amount, category, date, kind and owner, as it was and removes none; a
\* step can only add rows after the ones stored.
C21_LedgerAppendOnly ==
    [][/\ Len(transactions') >= Len(transactions)
       /\ SubSeq(transactions', 1, Len(transactions)) = transactions]_vars

\* a row was added to a ledger that held rows, all of which it still holds
C21_Witness ==
    /\ ValidLogCall
    /\ Len(last.before) >= 2
    /\ OneRowAdded

\* C22: every store operation puts the connection it took back, on success
\* and on failure, so between operations the pool holds all 5 connections,
\* table creation and add_transaction included.
C22_PoolFullBetweenOperations == pool = MaxConnections

\* C23: once process_message has returned for a message it appended, the
\* last entry of the history is the assistant turn holding the reply it
\* returned, the "I encountered an error: ..." reply and the reply for an
\* unrecognized operation included.
C23_ReplyAppended ==
    LastIsTurn =>
        /\ chat_history # <<>>
        /\ chat_history[Len(chat_history)].role = "assistant"
        /\ chat_history[Len(chat_history)].content = last.reply

\* the model selected one of the four operations with a payload that, made a
\* dict, lacks a field the operation requires; a payload that is no mapping
\* and no JSON text lacks them all
SelectsIncomplete ==
    /\ LastIsTurn
    /\ last.response.kind = "parts"
    /\ last.response.parts # <<>>
    /\ last.response.parts[1].kind = "call"
    /\ last.response.parts[1].name \in OperationNames
    /\ ~(Required(last.response.parts[1].name) \subseteq Given(ArgsOf(last.response.parts[1])))

\* C24: a selected operation whose argument payload is malformed or lacks a
\* required field does not abort the turn: the operation is invoked and the
\* reply renders its validation-failure envelope, not the top-level apology.
C24_MalformedArgsDegradeToValidation ==
    SelectsIncomplete =>
        /\ last.reply # ApologyReply
        /\ last.calls # <<>>
        /\ last.calls[1].name = last.response.parts[1].name
        /\ ~last.reply.env.success
        /\ last.reply = ErrorReply(last.reply.env)

\* the function-call parts of the last response, in their order
CallParts == SelectSeq(last.response.parts, LAMBDA part : part.kind = "call")

\* what the dispatcher is to hand on for field k of a get_monthly_summary
\* call, given is what the model supplied and current what the clock says
Filled(given, current) ==
    IF given = Absent \/ given \in {None, IntV(0), StrV(<<>>)} THEN IntV(current) ELSE given

\* C25: the dispatcher calls get_monthly_summary with the current month in
\* place of an absent or falsy month and the current year in place of an
\* absent or falsy year, hands a supplied non-falsy month or year on
\* unchanged, and adds no month or year to the call of another operation.
C25_DispatcherFillsMonthAndYear ==
    LastIsTurn =>
        \A k \in DOMAIN last.calls :
            LET given == ArgsOf(CallParts[k])
                sent == last.calls[k].args
            IN  IF last.calls[k].name = "get_monthly_summary"
                THEN /\ sent["month"] = Filled(given["month"], NowMonth(now))
                     /\ sent["year"] = Filled(given["year"], NowYear(now))
                ELSE /\ sent["month"] = given["month"]
                     /\ sent["year"] = given["year"]

\* in July the model asked for the summary of month 0 of 2023 and the
\* operation was called with month 7 and year 2023
C25_Witness ==
    /\ LastIsTurn
    /\ NowMonth(now) = 7
    /\ last.calls # <<>>
    /\ last.calls[1].name = "get_monthly_summary"
    /\ ArgsOf(CallParts[1])["month"] = IntV(0)
    /\ last.calls[1].args["month"] = IntV(7)
    /\ last.calls[1].args["year"] = IntV(2023)

\* C26: the credential a successful create_user returns resolves through
\* get_user_by_token to the user just created, with no authenticate call
\* in between.
C26_RegistrationCredentialResolves ==
    (last.op = "create_user" /\ ~last.raised /\ last.token # NoToken) =>
        LET r == get_user_by_token(users, pool, now, last.token)
        IN  /\ ~r.raised
            /\ r.user.success
            /\ r.user.user_id = Len(users)
            /\ r.user.username = last.username

\* r is one of the replies process_message returns to an identified user
IsReply(r) ==
    \/ r \in {ApologyReply, EmptyReply, NoContentReply, NoPartsReply, UnknownReply}
    \/ r = TextReply(r.text)
    \/ ~r.env.success /\ r = ErrorReply(r.env)
    \/ r.env.success /\ \E name \in OperationNames : r = Rendered(name, r.env)

\* a call of process_message for a user is over and has returned a reply
TurnOver ==
    /\ LastIsTurn
    /\ last.phase = "Idle"
    /\ IsReply(last.reply)

\* C27: a call of process_message for an identified user goes from Idle to
\* AwaitingModel to Rendering and back to Idle: it makes exactly one request
\* to the model, and whatever the model answers the call ends in Idle with a
\* reply returned.
C27_TurnReturnsToIdle ==
    /\ [](LastIsTurn => /\ last.phase \in {"Idle", "AwaitingModel", "Rendering"}
                        /\ last.requests = 1
                        /\ last.phase = "Rendering" => last.asked
                        /\ last.phase = "Idle" => last.asked /\ IsReply(last.reply))
    /\ (LastIsTurn /\ last.phase = "AwaitingModel") ~> TurnOver

\* a second call, answered without candidates, has returned its reply
C27_Witness ==
    /\ TurnOver
    /\ last.response.kind = "no_candidates"
    /\ last.reply = EmptyReply
    /\ last.historyBefore # <<>>

\* C28: get_user_by_token changes neither last_login nor the stored session
\* token of any user, so from the resolution on the credential resolves at
\* the hours at which it would have resolved without it: only an
\* authentication renews the window.
C28_ResolveRenewsNothing ==
    (last.op = "get_user_by_token" /\ ~last.raised) =>
        /\ users = last.usersBefore
        /\ \A h \in now..MaxHours :
              get_user_by_token(users, pool, h, last.token).user =
                  get_user_by_token(last.usersBefore, pool, h, last.token).user

\* a credential was resolved a day or so after the authentication that
\* issued it
C28_Witness ==
    /\ last.op = "get_user_by_token"
    /\ last.user.success
    /\ now >= 23
    /\ \E i \in DOMAIN users :
          /\ users[i].session_token = last.token
          /\ users[i].last_login = StrV(IsoFormat(0))

\* C29: a resolution running while a user is authenticated reads that
\* user's row with the old credential and the old last_login or with the new
\* credential and the new last_login, never with one new and the other old.
C29_RotationAtomicForReaders ==
    (last.op = "authenticate_user" /\ last.row # 0) =>
        /\ Pair(users[last.row]) \in
              {Pair(last.usersBefore[last.row]),
               [session_token |-> last.token, last_login |-> StrV(IsoFormat(now))]}
        /\ last.observed \in
              {NoPair, Pair(last.usersBefore[last.row]),
               [session_token |-> last.token, last_login |-> StrV(IsoFormat(now))]}

\* the credential of an earlier sign-in was resolved while the next sign-in
\* of the same user, a day later, had not yet committed
C29_Witness ==
    /\ last.op = "authenticate_user"
    /\ last.phase = "Updating"
    /\ last.user.success
    /\ last.observed = Pair(last.usersBefore[last.row])
    /\ last.observed.last_login # None
    /\ last.observed.last_login # StrV(IsoFormat(now))

\* the last call was authenticate_user with a username no user has or with a
\* password other than the user's
FailedAttempt ==
    /\ last.op = "authenticate_user"
    /\ last.phase = "Idle"
    /\ ~\E i \in DOMAIN last.usersBefore :
          /\ last.usersBefore[i].username = last.username
          /\ last.usersBefore[i].password_hash = Sha256(last.password)

\* C30: authenticate_user given an unknown username or a wrong password
\* returns None and leaves the session token and last_login of every user
\* as they were, so a credential that resolved before the attempt resolves
\* after it.
C30_FailedAuthenticationChangesNothing ==
    FailedAttempt =>
        /\ ~last.raised
        /\ last.token = NoToken
        /\ users = last.usersBefore
        /\ \A t \in 1..MaxTokens :
              get_user_by_token(last.usersBefore, pool, now, t).user.success
                  => Resolves(t)

\* a wrong password was given for a user whose credential resolves
C30_Witness ==
    /\ FailedAttempt
    /\ \E i \in DOMAIN users :
          /\ users[i].username = last.username
          /\ Resolves(users[i].session_token)

\* the rows of the ledger that user_id owns, in their order
OwnRows(user_id) == SelectSeq(transactions, LAMBDA row : row.user_id = user_id)

\* C31: what get_monthly_summary returns for a user depends only on the
\* rows that user owns: it is what the same call returns on the ledger without
\* the rows of every other user, so rows inserted for another user change no
\* summary of this one.
C31_SummaryOfOwnRowsOnly ==
    (last.op = "get_monthly_summary" /\ OperationInvoked /\ Truthy(last.args["user_id"])) =>
        last.env = get_monthly_summary(OwnRows(last.args["user_id"]), pool, now,
                                       Arg(last.args, "month"), Arg(last.args, "year"),
                                       Arg(last.args, "user_id")).env

\* user 1 got the summary of a month in which the ledger holds a row of
\* user 1 and a row of user 2
C31_Witness ==
    /\ last.op = "get_monthly_summary" /\ last.env.success
    /\ last.args["user_id"] = IntV(1)
    /\ last.env.summary.transactions = 1
    /\ \E i, j \in DOMAIN transactions :
          /\ transactions[i].user_id = IntV(1)
          /\ transactions[j].user_id = IntV(2)
          /\ transactions[i].date = transactions[j].date

\* C32: one call of process_message adds at most one row to the ledger,
\* whatever the response of the model, a response carrying several
\* function-call parts included.
C32_AtMostOneInsertPerMessage ==
    LastIsTurn => Len(transactions) <= Len(last.before) + 1

\* the free text of a response: the text of its parts, one after the other
RECURSIVE FreeText(_)
FreeText(parts) ==
    IF parts = <<>> THEN "" ELSE Head(parts).text \o FreeText(Tail(parts))

\* the model selected no operation: its response has parts and all are text
SelectsNothing ==
    /\ LastIsTurn
    /\ last.response.kind = "parts"
    /\ last.response.parts # <<>>
    /\ \A k \in DOMAIN last.response.parts : last.response.parts[k].kind = "text"

\* C33: when the model selects no operation, the reply is the model's free
\* text unchanged, the assistant turn appended to the history holds the same
\* text, and the turn writes nothing to the store and calls no operation.
C33_FreeTextIsTheReply ==
    SelectsNothing =>
        /\ last.reply = TextReply(FreeText(last.response.parts))
        /\ chat_history # <<>>
        /\ chat_history[Len(chat_history)].role = "assistant"
        /\ chat_history[Len(chat_history)].content = last.reply
        /\ transactions = last.before
        /\ pool = last.poolBefore
        /\ last.calls = <<>>

\* a stored row as log_expense and log_income promise it
RowIsValid(row) ==
    /\ IsNumber(row.amount) /\ row.amount.n > 0
    /\ IsStr(row.category) /\ row.category.s # <<>>
    /\ IsStr(row.date) /\ StrptimeOK(row.date.s)
    /\ row.transaction_type \in {"expense", "income"}

KindOf(op) == IF op = "log_expense" THEN "expense" ELSE "income"

\* C34: every row created through log_expense or log_income has an amount
\* above zero, a non-empty category or source text, a date that parses as
\* YYYY-MM-DD, and the kind "expense" when log_expense created it and "income"
\* when log_income did; no row has any other kind.
C34_RowsAreValidAndOfTheirKind ==
    /\ \A i \in 1..Len(transactions) : RowIsValid(transactions[i])
    /\ (LastIsLog /\ Len(transactions) = Len(last.before) + 1) =>
           transactions[Len(transactions)].transaction_type = KindOf(last.op)

\* an income row was just added to a ledger that holds an expense row
C34_Witness ==
    /\ last.op = "log_income" /\ ~last.raised
    /\ Len(transactions) = Len(last.before) + 1
    /\ transactions[Len(transactions)].transaction_type = "income"
    /\ \E i \in 1..Len(last.before) : transactions[i].transaction_type = "expense"

\* C35: under any interleaving of concurrent Database() constructions the
\* instance and its connection pool are created once: at most one object, one
\* run of table creation and MaxConnections connections ever exist, and a
\* thread whose __new__ has returned holds the one instance, made with its
\* pool and its tables.
C35_ConstructedOnce ==
    /\ last.db.created <= 1
    /\ last.db.tables <= 1
    /\ last.db.put \in {0, MaxConnections}
    /\ \A t \in Threads :
           last.db.pc[t] \in {"init", "verify", "done"} =>
               /\ last.db.got[t] = 1
               /\ last.db.created = 1
               /\ last.db.tables = 1
               /\ last.db.put = MaxConnections

\* every thread has its instance, the last of them after waiting for the lock
C35_Witness ==
    /\ \A t \in Threads : last.db.pc[t] = "done" /\ last.db.got[t] = 1
    /\ last.db.put = MaxConnections
    /\ pool = PoolAfterNew

\* the last message came without an identity
NoIdentity == last.op = "process_message" /\ ~Truthy(last.user_id)

\* C36: process_message called with a missing or falsy user identity returns
\* the fixed "Please log in" reply, appends nothing to the history, does not
\* call the model and does not touch the store.
C36_NoIdentityNoEffect ==
    NoIdentity =>
        /\ last.reply = LoginReply
        /\ chat_history = last.historyBefore
        /\ appended = last.appendedBefore
        /\ ~last.asked
        /\ last.calls = <<>>
        /\ transactions = last.before
        /\ pool = last.poolBefore

\* a message with the identity 0 arrived after an earlier conversation
C36_Witness ==
    /\ NoIdentity
    /\ last.user_id = IntV(0)
    /\ last.response.kind = "parts"
    /\ last.historyBefore # <<>>
    /\ last.reply = LoginReply

\* C37: for every get_exchange_rate request that reaches the provider, the
\* currency codes sent are the upper-cased forms of the codes received, so
\* that codes differing only in letter case make the same provider call.
C37_CodesSentUpperCased ==
    (last.op = "get_exchange_rate" /\ last.called) =>
        /\ last.sent.from = StrV(Upper(last.args["from_currency"].s))
        /\ last.sent.to = StrV(Upper(last.args["to_currency"].s))

====
